---------------------------- MODULE Spec2Model ----------------------------
(***************************************************************************)
(* Shader control-flow reconstruction (video_core/shader: expr + ast).     *)
(*                                                                         *)
(* The module models                                                       *)
(*   - the boolean expression algebra (MakeExprNot/And/Or, ExprAreEqual),  *)
(*   - the intrusive node list ASTZipper over a heap of AST nodes,         *)
(*   - the ASTManager session: builder calls, Decompile, Clear.            *)
(*                                                                         *)
(* A node is a heap cell addressed by a positive integer; 0 is the null    *)
(* pointer.  An ASTZipper is a member of the node that owns it, so a list  *)
(* is named by the address of its owner node.                              *)
(***************************************************************************)
EXTENDS Integers, Sequences, FiniteSets, TLC

VARIABLES
    ast,          \* the heap: sequence of node cells
    pc,           \* position of the session / of Decompile
    fault,        \* "none", or the kind of abnormal end that happened
    full_decompile,
    disable_else_derivation,
    main_node,    \* address of the Program node, 0 when absent
    labels_map,   \* address -> label index (a function on the declared addresses)
    labels_count,
    labels,       \* label index -> Label node (0 = empty slot)
    gotos,        \* worklist of Goto nodes
    variables,    \* synthetic variable counter
    it,           \* Decompile: worklist iterator (1-based position)
    goto_level,   \* Decompile: local of the directly-related loop
    label_level,  \* Decompile: local of the directly-related loop
    lit,          \* Decompile: iterator of the final label pass
    hist,         \* history of the session (builder calls, steps taken)
    max_items,    \* number of builder calls the decoder makes at most
    detached,     \* zipper harness: nodes an operation detached, not re-inserted since
    zcalls        \* zipper harness: number of calls made

mgrVars == <<full_decompile, disable_else_derivation, main_node, labels_map,
             labels_count, labels, gotos, variables, it, goto_level, label_level,
             lit, hist, max_items>>

vars == <<ast, pc, fault, detached, zcalls, mgrVars>>

NULL == 0

-----------------------------------------------------------------------------
(* Expressions: the std::variant ExprData as tagged records.               *)

ExprVar(i) == [t |-> "Var", i |-> i]
ExprCondCode(c) == [t |-> "CC", i |-> c]
ExprPredicate(p) == [t |-> "Pred", i |-> p]
ExprNot(a) == [t |-> "Not", a |-> a]
ExprOr(a, b) == [t |-> "Or", a |-> a, b |-> b]
ExprAnd(a, b) == [t |-> "And", a |-> a, b |-> b]
ExprBoolean(v) == [t |-> "Bool", v |-> v]
NoExpr == [t |-> "None"]

\* an equality that compares the payload of leaves and not their tag
ExprAreEqualAnyTag(first, second) ==
    IF first.t \in {"Var", "CC", "Pred"} /\ second.t \in {"Var", "CC", "Pred"}
    THEN first.i = second.i
    ELSE first = second

RECURSIVE ExprAreEqual(_, _)
ExprAreEqual(first, second) ==
    IF first.t # second.t THEN FALSE
    ELSE CASE first.t \in {"And", "Or"} ->
                ExprAreEqual(first.a, second.a) /\ ExprAreEqual(first.b, second.b)
           [] first.t = "Not" -> ExprAreEqual(first.a, second.a)
           [] first.t \in {"Var", "CC", "Pred"} -> first.i = second.i
           [] first.t = "Bool" -> first.v = second.v
           [] OTHER -> TRUE

ExprIsBoolean(expr) == expr.t = "Bool"

ExprBooleanGet(expr) == expr.v

\* a negation that always nests
MakeExprNotNest(first) == ExprNot(first)

MakeExprNot(first) ==
    IF first.t = "Not" THEN first.a ELSE ExprNot(first)

\* a conjunction that folds a literal in the first position only
MakeExprAndFirst(first, second) ==
    IF ExprIsBoolean(first) THEN (IF ExprBooleanGet(first) THEN second ELSE first)
    ELSE ExprAnd(first, second)

MakeExprAnd(first, second) ==
    IF ExprIsBoolean(first) THEN (IF ExprBooleanGet(first) THEN second ELSE first)
    ELSE IF ExprIsBoolean(second) THEN (IF ExprBooleanGet(second) THEN first ELSE second)
    ELSE ExprAnd(first, second)

\* a disjunction that folds its literals as a conjunction does
MakeExprOrAsAnd(first, second) ==
    IF ExprIsBoolean(first) THEN (IF ExprBooleanGet(first) THEN second ELSE first)
    ELSE IF ExprIsBoolean(second) THEN (IF ExprBooleanGet(second) THEN first ELSE second)
    ELSE ExprOr(first, second)

MakeExprOr(first, second) ==
    IF ExprIsBoolean(first) THEN (IF ExprBooleanGet(first) THEN first ELSE second)
    ELSE IF ExprIsBoolean(second) THEN (IF ExprBooleanGet(second) THEN second ELSE first)
    ELSE ExprOr(first, second)

\* an opposite test that looks for the NOT on the first side only
ExprAreOppositeFirst(first, second) ==
    IF first.t = "Not" THEN ExprAreEqual(first.a, second) ELSE FALSE

ExprAreOpposite(first, second) ==
    IF first.t = "Not" THEN ExprAreEqual(first.a, second)
    ELSE IF second.t = "Not" THEN ExprAreEqual(second.a, first)
    ELSE FALSE

ExprIsTrue(first) ==
    IF ExprIsBoolean(first) THEN ExprBooleanGet(first) ELSE FALSE

-----------------------------------------------------------------------------
(* Heap cells.  ASTBase::Make(parent, data) builds a cell whose parent is  *)
(* the argument and whose links and manager are null.                      *)

Cell(kind, parent, cond, idx) ==
    [kind |-> kind, cond |-> cond, idx |-> idx, unused |-> FALSE,
     nxt |-> NULL, prv |-> NULL, mgr |-> NULL, par |-> parent,
     first |-> NULL, last |-> NULL]

Make(h, kind, parent, cond, idx) == Append(h, Cell(kind, parent, cond, idx))

NewNode(h) == Len(h) + 1

SetNext(h, n, v) == IF n = NULL THEN h ELSE [h EXCEPT ![n].nxt = v]
SetPrevious(h, n, v) == IF n = NULL THEN h ELSE [h EXCEPT ![n].prv = v]
SetManager(h, n, v) == [h EXCEPT ![n].mgr = v]
SetParent(h, n, v) == [h EXCEPT ![n].par = v]
SetFirst(h, z, v) == [h EXCEPT ![z].first = v]
SetLast(h, z, v) == [h EXCEPT ![z].last = v]


-----------------------------------------------------------------------------
(* Walking the next-links.  A walk ends at the null pointer; a walk over   *)
(* links that form a cycle never ends (Cyclic).                            *)

Range(s) == {s[i] : i \in DOMAIN s}

RECURSIVE ChainAcc(_, _, _)
ChainAcc(h, n, acc) ==
    IF n = NULL \/ n \in Range(acc) THEN acc
    ELSE ChainAcc(h, h[n].nxt, Append(acc, n))

\* the nodes visited by  current = n; while (current) current = current->next
Chain(h, n) == ChainAcc(h, n, <<>>)

Cyclic(h, n) ==
    LET c == Chain(h, n) IN c # <<>> /\ h[c[Len(c)]].nxt # NULL

\* the nodes of list z as a traversal from its first pointer sees them
Nodes(h, z) == Chain(h, h[z].first)

-----------------------------------------------------------------------------
(* ASTZipper.  Each operation is the function from the heap before the     *)
(* call to the heap after it; its leading ASSERT is the ...Pre predicate.  *)

RECURSIVE InitWalk(_, _, _, _)
InitWalk(h, z, parent, cs) ==
    IF cs = <<>> THEN h
    ELSE InitWalk([h EXCEPT ![Head(cs)].mgr = z, ![Head(cs)].par = parent,
                            ![z].last = Head(cs)],
                  z, parent, Tail(cs))

InitPre(h, z, new_first) == h[new_first].mgr = NULL

Init(h, z, new_first, parent) ==
    LET h1 == SetLast(SetFirst(h, z, new_first), z, new_first)
    IN  InitWalk(h1, z, parent, Chain(h1, new_first))

PushBackPre(h, z, new_node) == h[new_node].mgr = NULL

PushBack(h, z, new_node) ==
    LET last == h[z].last
        h1 == SetPrevious(h, new_node, last)
        h2 == SetNext(h1, last, new_node)
        h3 == SetNext(h2, new_node, NULL)
        h4 == SetLast(h3, z, new_node)
        h5 == IF h4[z].first = NULL THEN SetFirst(h4, z, new_node) ELSE h4
    IN  SetManager(h5, new_node, z)

PushFrontPre(h, z, new_node) == h[new_node].mgr = NULL

PushFront(h, z, new_node) ==
    LET first == h[z].first
        h1 == SetPrevious(h, new_node, NULL)
        h2 == SetNext(h1, new_node, first)
        h3 == SetPrevious(h2, first, new_node)
        h4 == IF h3[z].last = first THEN SetLast(h3, z, new_node) ELSE h3
        h5 == SetFirst(h4, z, new_node)
    IN  SetManager(h5, new_node, z)

InsertAfterPre(h, z, new_node, at_node) == h[new_node].mgr = NULL

InsertAfter(h, z, new_node, at_node) ==
    IF at_node = NULL THEN PushFront(h, z, new_node)
    ELSE
    LET next == h[at_node].nxt
        h1 == SetPrevious(h, next, new_node)
        h2 == SetPrevious(h1, new_node, at_node)
        h3 == IF at_node = h2[z].last THEN SetLast(h2, z, new_node) ELSE h2
        h4 == SetNext(h3, new_node, next)
        h5 == SetNext(h4, at_node, new_node)
    IN  SetManager(h5, new_node, z)

InsertBeforePre(h, z, new_node, at_node) == h[new_node].mgr = NULL

InsertBefore(h, z, new_node, at_node) ==
    IF at_node = NULL THEN PushBack(h, z, new_node)
    ELSE
    LET previous == h[at_node].prv
        h1 == SetNext(h, previous, new_node)
        h2 == SetNext(h1, new_node, at_node)
        h3 == IF at_node = h2[z].first THEN SetFirst(h2, z, new_node) ELSE h2
        h4 == SetPrevious(h3, new_node, previous)
        h5 == SetPrevious(h4, at_node, new_node)
    IN  SetManager(h5, new_node, z)

RECURSIVE ClearWalk(_, _)
ClearWalk(h, cs) ==
    IF cs = <<>> THEN h
    ELSE ClearWalk([h EXCEPT ![Head(cs)].mgr = NULL, ![Head(cs)].par = NULL], Tail(cs))

DetachTailPre(h, z, node) == h[node].mgr = z

DetachTail(h, z, node) ==
    IF node = h[z].first THEN SetLast(SetFirst(h, z, NULL), z, NULL)
    ELSE
    LET h1 == SetLast(h, z, h[node].prv)
        h2 == SetNext(h1, h1[z].last, NULL)
        h3 == SetPrevious(h2, node, NULL)
    IN  ClearWalk(h3, Chain(h3, node))

DetachSinglePre(h, z, node) == h[node].mgr = z

DetachSingle(h, z, node) ==
    LET prev == h[node].prv
        post == h[node].nxt
        h1 == SetNext(SetPrevious(h, node, NULL), node, NULL)
        h2 == IF prev = NULL THEN SetFirst(h1, z, post) ELSE SetNext(h1, prev, post)
        h3 == IF post = NULL THEN SetLast(h2, z, prev) ELSE SetPrevious(h2, post, prev)
    IN  SetParent(SetManager(h3, node, NULL), node, NULL)

\* DetachSegment that leaves end chained to the node after it
DetachSegmentOpenEnd(h, z, start, end) ==
    IF start = end THEN DetachSingle(h, z, start)
    ELSE
    LET prev == h[start].prv
        post == h[end].nxt
        h1 == IF prev = NULL THEN SetFirst(h, z, post) ELSE SetNext(h, prev, post)
        h2 == IF post = NULL THEN SetLast(h1, z, prev) ELSE SetPrevious(h1, post, prev)
        h3 == SetPrevious(h2, start, NULL)
    IN  ClearWalk(h3, Chain(h3, start))

DetachSegmentPre(h, z, start, end) == h[start].mgr = z /\ h[end].mgr = z

DetachSegment(h, z, start, end) ==
    IF start = end THEN DetachSingle(h, z, start)
    ELSE
    LET prev == h[start].prv
        post == h[end].nxt
        h1 == IF prev = NULL THEN SetFirst(h, z, post) ELSE SetNext(h, prev, post)
        h2 == IF post = NULL THEN SetLast(h1, z, prev) ELSE SetPrevious(h1, post, prev)
        h3 == SetNext(SetPrevious(h2, start, NULL), end, NULL)
    IN  ClearWalk(h3, Chain(h3, start))

\* the trailing ASSERT(found) of DetachSegment
DetachSegmentFound(h, z, start, end) ==
    start = end \/ end \in Range(Chain(DetachSegment(h, z, start, end), start))

\* Remove that leaves the first pointer of the list alone
RemoveKeepFirst(h, z, node) ==
    LET next == h[node].nxt
        previous == h[node].prv
        h1 == SetNext(h, previous, next)
        h2 == SetPrevious(h1, next, previous)
        h3 == SetManager(SetParent(h2, node, NULL), node, NULL)
    IN  IF node = h3[z].last THEN SetLast(h3, z, previous) ELSE h3

RemovePre(h, z, node) == h[node].mgr = z

Remove(h, z, node) ==
    LET next == h[node].nxt
        previous == h[node].prv
        h1 == SetNext(h, previous, next)
        h2 == SetPrevious(h1, next, previous)
        h3 == SetManager(SetParent(h2, node, NULL), node, NULL)
        h4 == IF node = h3[z].last THEN SetLast(h3, z, previous) ELSE h3
    IN  IF node = h4[z].first THEN SetFirst(h4, z, next) ELSE h4


-----------------------------------------------------------------------------
(* ASTBase accessors used by ASTManager.                                   *)

RECURSIVE GetLevel(_, _)
GetLevel(h, n) == IF h[n].par = NULL THEN 0 ELSE 1 + GetLevel(h, h[n].par)

RECURSIVE Ancestor(_, _, _)
\* k times  node = node->GetParent()
Ancestor(h, n, k) == IF k = 0 THEN n ELSE Ancestor(h, h[n].par, k - 1)

IsLoop(h, n) == h[n].kind = "DoWhile"
IsIfThen(h, n) == h[n].kind = "IfThen"
IsIfElse(h, n) == h[n].kind = "IfElse"

RECURSIVE PrevChainAcc(_, _, _)
PrevChainAcc(h, n, acc) ==
    IF n = NULL \/ n \in acc THEN acc ELSE PrevChainAcc(h, h[n].prv, acc \cup {n})

\* the nodes visited by  current = n->GetPrevious(); while (current) current = current->GetPrevious()
Before(h, n) == PrevChainAcc(h, h[n].prv, {})

-----------------------------------------------------------------------------
(* ASTManager: relations between a goto and its label.                     *)

\* a DirectlyRelated that never answers yes
DirectlyRelatedNever(h, first, second) == FALSE

DirectlyRelated(h, first, second) ==
    IF h[first].par = h[second].par THEN FALSE
    ELSE
    LET first_level == GetLevel(h, first)
        second_level == GetLevel(h, second)
        min == IF first_level > second_level THEN second ELSE first
        max == IF first_level > second_level THEN first ELSE second
        min_level == IF first_level > second_level THEN second_level ELSE first_level
        max_level == IF first_level > second_level THEN first_level ELSE second_level
    IN  h[min].par = h[Ancestor(h, max, max_level - min_level)].par

IndirectlyRelated(h, first, second) ==
    ~(h[first].par = h[second].par \/ DirectlyRelated(h, first, second))

RECURSIVE CommonScope(_, _, _)
\* while (goto_node->GetParent() != label_node->GetParent()) both go up
CommonScope(h, g, l) ==
    IF h[g].par = h[l].par THEN <<g, l>> ELSE CommonScope(h, h[g].par, h[l].par)

\* IsBackwardsJump answering yes for every jump
IsBackwardsJumpAlways(h, goto_node, label_node) == TRUE

IsBackwardsJump(h, goto_node, label_node) ==
    LET goto_level0 == GetLevel(h, goto_node)
        label_level0 == GetLevel(h, label_node)
        g == IF goto_level0 > label_level0
             THEN Ancestor(h, goto_node, goto_level0 - label_level0) ELSE goto_node
        l == IF label_level0 > goto_level0
             THEN Ancestor(h, label_node, label_level0 - goto_level0) ELSE label_node
        c == CommonScope(h, g, l)
    IN  c[2] \in Before(h, c[1])

-----------------------------------------------------------------------------
(* ASTManager: the three tree rewrites.  A rewrite maps a record           *)
(*   [h: heap, f: fault, v: variables counter]                             *)
(* to the record after it; a failed ASSERT of a zipper call stops it with  *)
(* f = "assert", UNREACHABLE() with f = "unreachable", the use of a null   *)
(* pointer with f = "crash".                                               *)

Zip(r, pre, h2) ==
    IF r.f # "none" THEN r
    ELSE IF ~pre THEN [r EXCEPT !.f = "assert"]
    ELSE [r EXCEPT !.h = h2]

Alloc(r, kind, parent, cond, idx) ==
    IF r.f # "none" THEN r ELSE [r EXCEPT !.h = Make(r.h, kind, parent, cond, idx)]

Crash(r) == [r EXCEPT !.f = IF r.f = "none" THEN "crash" ELSE r.f]

false_condition == ExprBoolean(FALSE)

\* F applied to the value of e
Bind(e, F(_)) == CHOOSE y \in {F(x) : x \in {e}} : TRUE

\* r with its heap replaced or its fault set by a DetachSegment call
ZipSegment(r, z, start, end) ==
    IF r.f # "none" THEN r
    ELSE IF ~DetachSegmentPre(r.h, z, start, end) THEN [r EXCEPT !.f = "assert"]
    ELSE [r EXCEPT !.h = DetachSegment(r.h, z, start, end),
                   !.f = IF DetachSegmentFound(r.h, z, start, end)
                         THEN "none" ELSE "assert"]

\* EncloseDoWhile without the final removal of the goto from the loop body
EncloseDoWhileKeepGoto(r, goto_node, label) ==
    LET zipper == r.h[goto_node].mgr
        loop_start == r.h[label].nxt
        parent == r.h[label].par
        condition == r.h[goto_node].cond
        do_while_node == NewNode(r.h)
    IN
    IF zipper = NULL THEN Crash(r)
    ELSE IF loop_start = goto_node
    THEN Zip(r, RemovePre(r.h, zipper, goto_node), Remove(r.h, zipper, goto_node))
    ELSE IF loop_start = NULL THEN Crash(r)
    ELSE
    Bind(ZipSegment(r, zipper, loop_start, goto_node), LAMBDA r1 :
    Bind(Alloc(r1, "DoWhile", parent, condition, 0), LAMBDA r2 :
    Bind(Zip(r2, InitPre(r2.h, do_while_node, loop_start),
             Init(r2.h, do_while_node, loop_start, do_while_node)), LAMBDA r3 :
    Zip(r3, InsertAfterPre(r3.h, zipper, do_while_node, label),
        InsertAfter(r3.h, zipper, do_while_node, label)))))

EncloseDoWhile(r, goto_node, label) ==
    LET zipper == r.h[goto_node].mgr
        loop_start == r.h[label].nxt
        parent == r.h[label].par
        condition == r.h[goto_node].cond
        do_while_node == NewNode(r.h)
    IN
    IF zipper = NULL THEN Crash(r)
    ELSE IF loop_start = goto_node
    THEN Zip(r, RemovePre(r.h, zipper, goto_node), Remove(r.h, zipper, goto_node))
    ELSE IF loop_start = NULL THEN Crash(r)
    ELSE
    Bind(ZipSegment(r, zipper, loop_start, goto_node), LAMBDA r1 :
    Bind(Alloc(r1, "DoWhile", parent, condition, 0), LAMBDA r2 :
    Bind(Zip(r2, InitPre(r2.h, do_while_node, loop_start),
             Init(r2.h, do_while_node, loop_start, do_while_node)), LAMBDA r3 :
    Bind(Zip(r3, InsertAfterPre(r3.h, zipper, do_while_node, label),
             InsertAfter(r3.h, zipper, do_while_node, label)), LAMBDA r4 :
    Zip(r4, RemovePre(r4.h, do_while_node, goto_node),
        Remove(r4.h, do_while_node, goto_node))))))

\* do_else is the value the else-fusion test produced
EncloseIfThenWith(r, goto_node, label, do_else) ==
    LET zipper == r.h[goto_node].mgr
        if_end == r.h[label].prv
        prev == r.h[goto_node].prv
        condition == r.h[goto_node].cond
        parent == r.h[label].par
        if_node == NewNode(r.h)
    IN
    Bind(ZipSegment(r, zipper, goto_node, if_end), LAMBDA r1 :
    Bind(IF do_else THEN Alloc(r1, "IfElse", parent, NoExpr, 0)
         ELSE Alloc(r1, "IfThen", parent, MakeExprNot(condition), 0), LAMBDA r2 :
    Bind(Zip(r2, InitPre(r2.h, if_node, goto_node),
             Init(r2.h, if_node, goto_node, if_node)), LAMBDA r3 :
    Bind(Zip(r3, InsertAfterPre(r3.h, zipper, if_node, prev),
             InsertAfter(r3.h, zipper, if_node, prev)), LAMBDA r4 :
    Zip(r4, RemovePre(r4.h, if_node, goto_node), Remove(r4.h, if_node, goto_node))))))

\* the set of records EncloseIfThen can end in: one, unless prev is null while
\* else-derivation is enabled, where prev->IsIfThen() reads through a null
\* pointer and the build may crash or see either truth value
EncloseIfThen(r, goto_node, label, no_else) ==
    LET zipper == r.h[goto_node].mgr
        if_end == r.h[label].prv
        prev == r.h[goto_node].prv
        condition == r.h[goto_node].cond
    IN
    IF zipper = NULL THEN {Crash(r)}
    ELSE IF if_end = goto_node
    THEN {Zip(r, RemovePre(r.h, zipper, goto_node), Remove(r.h, zipper, goto_node))}
    ELSE IF if_end = NULL THEN {Crash(r)}
    ELSE IF no_else THEN {EncloseIfThenWith(r, goto_node, label, FALSE)}
    ELSE IF prev = NULL
    THEN {Crash(r)} \cup {EncloseIfThenWith(r, goto_node, label, b) : b \in BOOLEAN}
    ELSE {EncloseIfThenWith(r, goto_node, label,
             IsIfThen(r.h, prev) /\ ExprAreEqual(r.h[prev].cond, condition))}

\* MoveOutOfLoop with the break put before the assignment of the variable
MoveOutOfLoopBreakFirst(r, goto_node, zipper, zipper2, parent, prev, condition) ==
    LET var_index == r.v
        var_condition == ExprVar(var_index)
        var_node == NewNode(r.h)
        var_node_init == var_node + 1
        break_node == var_node + 2
    IN
    Bind(Alloc(Alloc([r EXCEPT !.v = r.v + 1], "VarSet", parent, condition, var_index),
               "VarSet", parent, false_condition, var_index), LAMBDA r1 :
    Bind(Zip(r1, InsertBeforePre(r1.h, zipper2, var_node_init, parent),
             InsertBefore(r1.h, zipper2, var_node_init, parent)), LAMBDA r2 :
    Bind(Zip(r2, InsertAfterPre(r2.h, zipper, var_node, prev),
             InsertAfter(r2.h, zipper, var_node, prev)), LAMBDA r3 :
    Bind(Alloc([r3 EXCEPT !.h[goto_node].cond = var_condition],
               "Break", parent, var_condition, 0), LAMBDA r4 :
    Zip(r4, InsertAfterPre(r4.h, zipper, break_node, prev),
        InsertAfter(r4.h, zipper, break_node, prev))))))

\* the part of MoveOutward for a goto inside a do-while
MoveOutOfLoop(r, goto_node, zipper, zipper2, parent, prev, condition) ==
    LET var_index == r.v
        var_condition == ExprVar(var_index)
        var_node == NewNode(r.h)
        var_node_init == var_node + 1
        break_node == var_node + 2
    IN
    Bind(Alloc(Alloc([r EXCEPT !.v = r.v + 1], "VarSet", parent, condition, var_index),
               "VarSet", parent, false_condition, var_index), LAMBDA r1 :
    Bind(Zip(r1, InsertBeforePre(r1.h, zipper2, var_node_init, parent),
             InsertBefore(r1.h, zipper2, var_node_init, parent)), LAMBDA r2 :
    Bind(Zip(r2, InsertAfterPre(r2.h, zipper, var_node, prev),
             InsertAfter(r2.h, zipper, var_node, prev)), LAMBDA r3 :
    Bind(Alloc([r3 EXCEPT !.h[goto_node].cond = var_condition],
               "Break", parent, var_condition, 0), LAMBDA r4 :
    Zip(r4, InsertAfterPre(r4.h, zipper, break_node, var_node),
        InsertAfter(r4.h, zipper, break_node, var_node))))))

\* MoveOutOfIf leaving the siblings after the goto where they are
MoveOutOfIfKeepTail(r, goto_node, zipper, zipper2, parent, prev, post, condition, is_if) ==
    LET var_index == r.v
        var_condition == ExprVar(var_index)
        var_node == NewNode(r.h)
        var_node_init == var_node + 1
        init_at == IF is_if THEN parent ELSE r.h[parent].prv
    IN
    Bind(Alloc(Alloc([r EXCEPT !.v = r.v + 1], "VarSet", parent, condition, var_index),
               "VarSet", parent, false_condition, var_index), LAMBDA r1 :
    Bind(Zip(r1, InsertBeforePre(r1.h, zipper2, var_node_init, init_at),
             InsertBefore(r1.h, zipper2, var_node_init, init_at)), LAMBDA r2 :
    Bind(Zip(r2, InsertAfterPre(r2.h, zipper, var_node, prev),
             InsertAfter(r2.h, zipper, var_node, prev)), LAMBDA r3 :
    [r3 EXCEPT !.h[goto_node].cond = var_condition])))

\* the part of MoveOutward for a goto inside an if-then or an if-else
MoveOutOfIf(r, goto_node, zipper, zipper2, parent, prev, post, condition, is_if) ==
    LET var_index == r.v
        var_condition == ExprVar(var_index)
        var_node == NewNode(r.h)
        var_node_init == var_node + 1
        if_node == var_node + 2
        init_at == IF is_if THEN parent ELSE r.h[parent].prv
    IN
    Bind(Alloc(Alloc([r EXCEPT !.v = r.v + 1], "VarSet", parent, condition, var_index),
               "VarSet", parent, false_condition, var_index), LAMBDA r1 :
    Bind(Zip(r1, InsertBeforePre(r1.h, zipper2, var_node_init, init_at),
             InsertBefore(r1.h, zipper2, var_node_init, init_at)), LAMBDA r2 :
    Bind(Zip(r2, InsertAfterPre(r2.h, zipper, var_node, prev),
             InsertAfter(r2.h, zipper, var_node, prev)), LAMBDA r3 :
    Bind([r3 EXCEPT !.h[goto_node].cond = var_condition], LAMBDA r4 :
    IF post = NULL THEN r4
    ELSE
    Bind(Zip(r4, DetachTailPre(r4.h, zipper, post), DetachTail(r4.h, zipper, post)),
         LAMBDA r5 :
    Bind(Alloc(r5, "IfThen", parent, MakeExprNot(var_condition), 0), LAMBDA r6 :
    Bind(Zip(r6, InitPre(r6.h, if_node, post), Init(r6.h, if_node, post, if_node)),
         LAMBDA r7 :
    Zip(r7, InsertAfterPre(r7.h, zipper, if_node, var_node),
        InsertAfter(r7.h, zipper, if_node, var_node)))))))))

MoveOutward(r, goto_node) ==
    LET h == r.h
        zipper == h[goto_node].mgr
        parent == h[goto_node].par
    IN
    IF zipper = NULL \/ parent = NULL THEN Crash(r)
    ELSE
    LET zipper2 == h[parent].mgr
        grandpa == h[parent].par
        is_loop == IsLoop(h, parent)
        is_else == IsIfElse(h, parent)
        is_if == IsIfThen(h, parent)
        prev == h[goto_node].prv
        post == h[goto_node].nxt
        condition == h[goto_node].cond
    IN
    Bind(Zip(r, DetachSinglePre(h, zipper, goto_node), DetachSingle(h, zipper, goto_node)),
         LAMBDA r1 :
    IF r1.f # "none" THEN r1
    ELSE IF ~(is_loop \/ is_if \/ is_else) THEN [r1 EXCEPT !.f = "unreachable"]
    ELSE IF zipper2 = NULL THEN Crash(r1)
    ELSE
    Bind(IF is_loop
         THEN MoveOutOfLoop(r1, goto_node, zipper, zipper2, parent, prev, condition)
         ELSE MoveOutOfIf(r1, goto_node, zipper, zipper2, parent, prev, post, condition,
                          is_if), LAMBDA r2 :
    IF r2.f # "none" THEN r2
    ELSE
    LET next == r2.h[parent].nxt
        at == IF is_if /\ next # NULL /\ IsIfElse(r2.h, next) THEN next ELSE parent
    IN
    Bind(Zip(r2, InsertAfterPre(r2.h, zipper2, goto_node, at),
             InsertAfter(r2.h, zipper2, goto_node, at)), LAMBDA r3 :
    IF r3.f # "none" THEN r3
    ELSE [r3 EXCEPT !.h = SetParent(r3.h, goto_node, grandpa)])))

-----------------------------------------------------------------------------
(* Zipper harness: arbitrary sequences of ASTZipper calls on ZLists lists  *)
(* and ZLeaves leaf nodes.  A failed ASSERT is the fault "assert", a walk  *)
(* over cyclic links the fault "hang"; both end the run.  As at every call  *)
(* site of ASTManager, the caller of an insertion gives the node the       *)
(* list's owner as parent (Make(parent, ..) before, or SetParent after).   *)
(* hist holds the call made last: operation, list, node and second node.   *)

ZLists == 2
ZLeaves == 3
ZMaxCalls == 6

ZOwner == 1..ZLists
ZLeaf == (ZLists + 1)..(ZLists + ZLeaves)

RECURSIVE ZHeap(_, _)
ZHeap(h, k) ==
    IF k = 0 THEN h
    ELSE ZHeap(Make(h, IF Len(h) < ZLists THEN "IfThen" ELSE "BlockEncoded",
                    NULL, NoExpr, Len(h)), k - 1)

InitMgrIdle ==
    /\ full_decompile = TRUE
    /\ disable_else_derivation = FALSE
    /\ main_node = NULL
    /\ labels_map = <<>>
    /\ labels_count = 0
    /\ labels = <<>>
    /\ gotos = <<>>
    /\ variables = 0
    /\ it = 0
    /\ goto_level = 0
    /\ label_level = 0
    /\ lit = 0
    /\ hist = [op |-> "none", z |-> NULL, n |-> NULL, m |-> NULL]
    /\ max_items = 0

InitZ ==
    /\ ast = ZHeap(<<>>, ZLists + ZLeaves)
    /\ pc = "zipper"
    /\ fault = "none"
    /\ detached = {}
    /\ zcalls = 0
    /\ InitMgrIdle

idleVars == <<full_decompile, disable_else_derivation, main_node, labels_map,
              labels_count, labels, gotos, variables, it, goto_level, label_level,
              lit, max_items>>

ZRecord(op, z, n, m) == [op |-> op, z |-> z, n |-> n, m |-> m]

\* a zipper operation that links or unlinks before it tests its ASSERT
ZCallLate(call, pre, h, hang, ins, det) ==
    /\ pc = "zipper"
    /\ fault = "none"
    /\ zcalls < ZMaxCalls
    /\ zcalls' = zcalls + 1
    /\ hist' = call
    /\ IF hang THEN fault' = "hang" /\ UNCHANGED <<ast, detached>>
       ELSE /\ ast' = h
            /\ detached' = (detached \ ins) \cup det
            /\ fault' = IF pre THEN "none" ELSE "assert"
    /\ UNCHANGED <<pc, idleVars>>

ZCall(call, pre, h, hang, ins, det) ==
    /\ pc = "zipper"
    /\ fault = "none"
    /\ zcalls < ZMaxCalls
    /\ zcalls' = zcalls + 1
    /\ IF ~pre THEN fault' = "assert" /\ UNCHANGED <<ast, detached>>
       ELSE IF hang THEN fault' = "hang" /\ UNCHANGED <<ast, detached>>
       ELSE /\ ast' = h
            /\ detached' = (detached \ ins) \cup det
            /\ UNCHANGED fault
    /\ hist' = call
    /\ UNCHANGED <<pc, idleVars>>

ZInit ==
    \E z \in ZOwner, n \in ZLeaf :
        /\ ast[z].first = NULL /\ ast[z].last = NULL
        /\ ZCall(ZRecord("Init", z, n, NULL), InitPre(ast, z, n), Init(ast, z, n, z), Cyclic(ast, n),
                 Range(Chain(ast, n)), {})

ZPushBack ==
    \E z \in ZOwner, n \in ZLeaf :
        ZCall(ZRecord("PushBack", z, n, NULL), PushBackPre(ast, z, n),
              PushBack(SetParent(ast, n, z), z, n), FALSE, {n}, {})

ZPushFront ==
    \E z \in ZOwner, n \in ZLeaf :
        ZCall(ZRecord("PushFront", z, n, NULL), PushFrontPre(ast, z, n),
              PushFront(SetParent(ast, n, z), z, n), FALSE, {n}, {})

ZInsertAfter ==
    \E z \in ZOwner, n \in ZLeaf, at \in ZLeaf \cup {NULL} :
        /\ at # NULL => ast[at].mgr = z
        /\ ZCall(ZRecord("InsertAfter", z, n, at), InsertAfterPre(ast, z, n, at),
                 SetParent(InsertAfter(ast, z, n, at), n, z), FALSE, {n}, {})

ZInsertBefore ==
    \E z \in ZOwner, n \in ZLeaf, at \in ZLeaf \cup {NULL} :
        /\ at # NULL => ast[at].mgr = z
        /\ ZCall(ZRecord("InsertBefore", z, n, at), InsertBeforePre(ast, z, n, at),
                 SetParent(InsertBefore(ast, z, n, at), n, z), FALSE, {n}, {})

ZDetachSingle ==
    \E z \in ZOwner, n \in ZLeaf :
        ZCall(ZRecord("DetachSingle", z, n, NULL), DetachSinglePre(ast, z, n),
              DetachSingle(ast, z, n), FALSE, {}, {n})

ZDetachTail ==
    \E z \in ZOwner, n \in ZLeaf :
        ZCall(ZRecord("DetachTail", z, n, NULL), DetachTailPre(ast, z, n), DetachTail(ast, z, n),
              n # ast[z].first /\ Cyclic(ast, n), {}, Range(Chain(ast, n)))

ZDetachSegment ==
    \E z \in ZOwner, s \in ZLeaf, e \in ZLeaf :
        /\ pc = "zipper"
        /\ fault = "none"
        /\ zcalls < ZMaxCalls
        /\ zcalls' = zcalls + 1
        /\ IF ~DetachSegmentPre(ast, z, s, e)
           THEN fault' = "assert" /\ UNCHANGED <<ast, detached>>
           ELSE /\ ast' = DetachSegment(ast, z, s, e)
                /\ detached' = detached \cup Range(Chain(ast', s))
                /\ fault' = IF DetachSegmentFound(ast, z, s, e) THEN "none" ELSE "assert"
        /\ hist' = ZRecord("DetachSegment", z, s, e)
        /\ UNCHANGED <<pc, idleVars>>

ZRemove ==
    \E z \in ZOwner, n \in ZLeaf :
        ZCall(ZRecord("Remove", z, n, NULL), RemovePre(ast, z, n), Remove(ast, z, n),
              FALSE, {}, {n})

NextZ ==
    \/ ZInit
    \/ ZPushBack
    \/ ZPushFront
    \/ ZInsertAfter
    \/ ZInsertBefore
    \/ ZDetachSingle
    \/ ZDetachTail
    \/ ZDetachSegment
    \/ ZRemove

SpecZ == InitZ /\ [][NextZ]_vars

\* C1: after any sequence of zipper calls whose preconditions hold, every node
\* linked in a list has its manager equal to that list and its parent equal to
\* the list's owner, and every node an operation detached has both cleared.
C1_ZipperBackRefs ==
    (pc = "zipper" /\ fault = "none") =>
        /\ \A z \in ZOwner : \A n \in Range(Nodes(ast, z)) :
               ast[n].mgr = z /\ ast[n].par = z
        /\ \A n \in detached : ast[n].mgr = NULL /\ ast[n].par = NULL


\* the ownership precondition of the call c in heap h: a node to insert has no
\* owning list, a node to detach or remove is owned by the list called
Owned(c, h) ==
    CASE c.op \in {"Init", "PushBack", "PushFront", "InsertAfter", "InsertBefore"} ->
            h[c.n].mgr = NULL
      [] c.op = "DetachSegment" -> h[c.n].mgr = c.z /\ h[c.m].mgr = c.z
      [] OTHER -> h[c.n].mgr = c.z

ZCalled == pc = "zipper" /\ fault = "none" /\ zcalls' = zcalls + 1

\* C11: a zipper operation called with a node that violates its ownership
\* precondition fails with an assertion and leaves every link, first/last
\* pointer and back-reference as it was.
C11_AssertFirst ==
    [][(ZCalled /\ ~Owned(hist', ast)) => (fault' = "assert" /\ ast' = ast)]_vars

\* an insertion of an already linked node, or a detach from the wrong list,
\* was refused while a list had nodes
C11_Witness ==
    /\ pc = "zipper" /\ fault = "assert"
    /\ ~Owned(hist, ast)
    /\ hist.op \in {"InsertAfter", "DetachSegment"}
    /\ \E z \in ZOwner : Len(Nodes(ast, z)) >= 2

\* list z is a doubly-linked sequence from first to last
WellFormed(h, z) ==
    LET ns == Nodes(h, z)
    IN  /\ (h[z].first = NULL) <=> (h[z].last = NULL)
        /\ ~Cyclic(h, h[z].first)
        /\ ns # <<>> =>
              /\ h[ns[1]].prv = NULL
              /\ ns[Len(ns)] = h[z].last
              /\ h[h[z].last].nxt = NULL
        /\ \A i \in 1..(Len(ns) - 1) : h[ns[i + 1]].prv = ns[i]

\* C21: after any sequence of zipper calls each list is well formed: first
\* has no previous, last has no next, the walk along next from first ends at
\* last, and previous is the inverse of next.  PushFront on a non-empty list
\* makes the new node first and leaves last as it was.
C21_WellFormedLists ==
    (pc = "zipper" /\ fault = "none") => \A z \in ZOwner : WellFormed(ast, z)

-----------------------------------------------------------------------------
(* ASTManager session.  The decoder (the caller) declares the labels, then *)
(* inserts blocks, labels, gotos and returns in program order, then calls  *)
(* Decompile once.  hist.prog records the inserted items in call order,    *)
(* hist.decl the declared addresses, hist.marks the iterations of the     *)
(* backward-only label pass (cyclic); the i-th inserted node lives at     *)
(* address i + 1 (the Program node at 1).                                  *)

MaxInsert == 4
MaxAddr == 2
MaxSpin == 2

Addrs == 1..MaxAddr
GotoConds == {ExprPredicate(0), ExprNot(ExprPredicate(0))}
ReturnConds == {ExprPredicate(1)}

Running == {"visit", "indirect", "direct", "lift", "enclose", "rmlabels", "mark"}

\* hist.last: the builder or teardown call made last; re tells that the call
\* met a state it had nothing to add to (address in the map, root absent)
NoCall == [op |-> "none", a |-> 0, re |-> FALSE]
Called(op, address, re) == [op |-> op, a |-> address, re |-> re]

InitD ==
    /\ ast = <<>>
    /\ pc = "new"
    /\ fault = "none"
    /\ detached = {}
    /\ zcalls = 0
    /\ full_decompile \in BOOLEAN
    /\ disable_else_derivation \in BOOLEAN
    /\ main_node = NULL
    /\ labels_map = <<>>
    /\ labels_count = 0
    /\ labels = <<>>
    /\ gotos = <<>>
    /\ variables = 0
    /\ it = 0
    /\ goto_level = 0
    /\ label_level = 0
    /\ lit = 0
    /\ hist = [prog |-> <<>>, decl |-> {}, marks |-> 0, first |-> <<>>, last |-> NoCall]
    /\ max_items = MaxInsert

zVars == <<detached, zcalls>>
flagVars == <<full_decompile, disable_else_derivation, max_items>>
loopVars == <<it, goto_level, label_level, lit>>

\* ASTManager::Init
ManagerInit ==
    /\ pc = "new" /\ fault = "none"
    /\ ast' = Make(ast, "Program", NULL, NoExpr, 0)
    /\ main_node' = NewNode(ast)
    /\ pc' = "build"
    /\ UNCHANGED <<fault, zVars, flagVars, labels_map, labels_count, labels, gotos,
                   variables, loopVars, hist>>

\* std::vector::resize: new slots hold null
Resize(seq, n) == [i \in 1..n |-> IF i <= Len(seq) THEN seq[i] ELSE NULL]

\* a DeclareLabel that takes a fresh index on every call
DeclareLabelAgain ==
    \E address \in Addrs :
        /\ pc = "build" /\ fault = "none"
        /\ hist.prog = <<>>
        /\ labels_map' = (address :> labels_count) @@ labels_map
        /\ labels_count' = labels_count + 1
        /\ labels' = Resize(labels, labels_count + 1)
        /\ hist' = [hist EXCEPT !.decl = @ \cup {address},
                                !.first = IF address \in hist.decl THEN @
                                          ELSE Append(@, address),
                                !.last = Called("DeclareLabel", address,
                                                address \in DOMAIN labels_map)]
        /\ UNCHANGED <<ast, pc, fault, zVars, flagVars, main_node, gotos, variables,
                       loopVars>>

\* std::unordered_map::emplace(address, labels_count) and the resize.
\* hist.first lists the addresses in the order of their first declaration.
DeclareLabel ==
    \E address \in Addrs :
        /\ pc = "build" /\ fault = "none"
        /\ hist.prog = <<>>
        /\ IF address \notin DOMAIN labels_map
           THEN /\ labels_map' = (address :> labels_count) @@ labels_map
                /\ labels_count' = labels_count + 1
                /\ labels' = Resize(labels, labels_count + 1)
           ELSE UNCHANGED <<labels_map, labels_count, labels>>
        /\ hist' = [hist EXCEPT !.decl = @ \cup {address},
                                !.first = IF address \in hist.decl THEN @
                                          ELSE Append(@, address),
                                !.last = Called("DeclareLabel", address,
                                                address \in DOMAIN labels_map)]
        /\ UNCHANGED <<ast, pc, fault, zVars, flagVars, main_node, gotos, variables,
                       loopVars>>

\* labels_map[address]: a missing key is inserted with the value 0
MapIndex(map, address) == IF address \in DOMAIN map THEN map[address] ELSE 0
MapTouch(map, address) == IF address \in DOMAIN map THEN map ELSE (address :> 0) @@ map

Record(kind, cond, address) ==
    [hist EXCEPT !.prog = Append(@, [k |-> kind, c |-> cond, a |-> address]),
                 !.last = Called("Insert", 0, FALSE)]

InsertLabel ==
    \E address \in Addrs :
        /\ pc = "build" /\ fault = "none"
        /\ Len(hist.prog) < max_items
        /\ LET index == MapIndex(labels_map, address)
               label == NewNode(ast)
           IN  /\ labels_map' = MapTouch(labels_map, address)
               /\ IF index >= Len(labels)
                  THEN /\ fault' = "crash"
                       /\ UNCHANGED <<ast, labels, hist>>
                  ELSE /\ ast' = PushBack(Make(ast, "Label", main_node, NoExpr, index),
                                          main_node, label)
                       /\ labels' = [labels EXCEPT ![index + 1] = label]
                       /\ hist' = Record("Label", NoExpr, address)
                       /\ UNCHANGED fault
        /\ UNCHANGED <<pc, zVars, flagVars, main_node, labels_count, gotos, variables,
                       loopVars>>

\* an InsertGoto that puts the goto at the front of the worklist
InsertGotoFront ==
    \E condition \in GotoConds, address \in Addrs :
        /\ pc = "build" /\ fault = "none"
        /\ Len(hist.prog) < max_items
        /\ LET index == MapIndex(labels_map, address)
               goto_node == NewNode(ast)
           IN  /\ labels_map' = MapTouch(labels_map, address)
               /\ ast' = PushBack(Make(ast, "Goto", main_node, condition, index),
                                  main_node, goto_node)
               /\ gotos' = <<goto_node>> \o gotos
               /\ hist' = Record("Goto", condition, address)
        /\ UNCHANGED <<pc, fault, zVars, flagVars, main_node, labels_count, labels,
                       variables, loopVars>>

InsertGoto ==
    \E condition \in GotoConds, address \in Addrs :
        /\ pc = "build" /\ fault = "none"
        /\ Len(hist.prog) < max_items
        /\ LET index == MapIndex(labels_map, address)
               goto_node == NewNode(ast)
           IN  /\ labels_map' = MapTouch(labels_map, address)
               /\ ast' = PushBack(Make(ast, "Goto", main_node, condition, index),
                                  main_node, goto_node)
               /\ gotos' = Append(gotos, goto_node)
               /\ hist' = Record("Goto", condition, address)
        /\ UNCHANGED <<pc, fault, zVars, flagVars, main_node, labels_count, labels,
                       variables, loopVars>>

InsertBlock ==
    /\ pc = "build" /\ fault = "none"
    /\ Len(hist.prog) < max_items
    /\ ast' = PushBack(Make(ast, "BlockEncoded", main_node, NoExpr, Len(hist.prog)),
                       main_node, NewNode(ast))
    /\ hist' = Record("Block", NoExpr, 0)
    /\ UNCHANGED <<pc, fault, zVars, flagVars, main_node, labels_map, labels_count,
                   labels, gotos, variables, loopVars>>

InsertReturn ==
    \E condition \in ReturnConds :
        /\ pc = "build" /\ fault = "none"
        /\ Len(hist.prog) < max_items
        /\ ast' = PushBack(Make(ast, "Return", main_node, condition, 0),
                           main_node, NewNode(ast))
        /\ hist' = Record("Return", condition, 0)
        /\ UNCHANGED <<pc, fault, zVars, flagVars, main_node, labels_map, labels_count,
                       labels, gotos, variables, loopVars>>

-----------------------------------------------------------------------------
(* ASTManager::Decompile, one action per loop iteration or loop test.      *)

\* labels[*label_index]; 0 when the slot is empty, -1 when there is no such slot
LabelOf(goto_node) ==
    LET index == ast[goto_node].idx
    IN  IF index < Len(labels) THEN labels[index + 1] ELSE -1

DecompileBegin ==
    /\ pc = "build" /\ fault = "none"
    /\ pc' = "visit"
    /\ it' = 1
    /\ UNCHANGED <<ast, fault, zVars, flagVars, main_node, labels_map, labels_count,
                   labels, gotos, variables, goto_level, label_level, lit, hist>>

\* top of the worklist loop up to the test of IndirectlyRelated
Visit ==
    /\ pc = "visit" /\ fault = "none"
    /\ it <= Len(gotos)
    /\ LET goto_node == gotos[it]
           label == LabelOf(goto_node)
       IN  IF label <= NULL
           THEN fault' = "crash" /\ UNCHANGED <<pc, it>>
           ELSE IF ~full_decompile /\ ~IsBackwardsJump(ast, goto_node, label)
           THEN /\ it' = it + 1
                /\ UNCHANGED <<pc, fault>>
           ELSE /\ pc' = IF IndirectlyRelated(ast, goto_node, label)
                         THEN "indirect" ELSE "direct"
                /\ UNCHANGED <<fault, it>>
    /\ UNCHANGED <<ast, zVars, flagVars, main_node, labels_map, labels_count, labels,
                   gotos, variables, goto_level, label_level, lit, hist>>

\* one MoveOutward call with the bookkeeping of the session around it
DoMoveOutward(goto_node) ==
    \E r \in {MoveOutward(r0, goto_node) :
                 r0 \in {[h |-> ast, f |-> "none", v |-> variables]}} :
        /\ ast' = r.h
        /\ fault' = r.f
        /\ variables' = r.v

\* if (DirectlyRelated(goto_node, label)) { goto_level = ..; label_level = ..;
Direct ==
    /\ pc = "direct" /\ fault = "none"
    /\ LET goto_node == gotos[it]
           label == LabelOf(goto_node)
       IN  IF DirectlyRelated(ast, goto_node, label)
           THEN /\ goto_level' = GetLevel(ast, goto_node)
                /\ label_level' = GetLevel(ast, label)
                /\ pc' = "lift"
           ELSE pc' = "enclose" /\ UNCHANGED <<goto_level, label_level>>
    /\ UNCHANGED <<ast, fault, zVars, flagVars, main_node, labels_map, labels_count,
                   labels, gotos, variables, it, lit, hist>>

\* one test, and one iteration if it passes, of either MoveOutward loop:
\*   while (!DirectlyRelated(goto_node, label)) MoveOutward(goto_node);
\*   while (label_level < goto_level) { MoveOutward(goto_node); goto_level--; }
Outward ==
    /\ pc \in {"indirect", "lift"} /\ fault = "none"
    /\ LET goto_node == gotos[it]
           label == LabelOf(goto_node)
       IN  IF pc = "indirect"
           THEN IF ~DirectlyRelated(ast, goto_node, label)
                THEN DoMoveOutward(goto_node) /\ UNCHANGED <<pc, goto_level>>
                ELSE pc' = "direct" /\ UNCHANGED <<ast, fault, variables, goto_level>>
           ELSE IF label_level < goto_level
                THEN /\ DoMoveOutward(goto_node)
                     /\ goto_level' = goto_level - 1
                     /\ UNCHANGED pc
                ELSE pc' = "enclose" /\ UNCHANGED <<ast, fault, variables, goto_level>>
    /\ UNCHANGED <<zVars, flagVars, main_node, labels_map, labels_count, labels, gotos,
                   it, label_level, lit, hist>>

\* an erase that drops the last entry instead of the i-th
EraseLast(s, i) == SubSeq(s, 1, Len(s) - 1)

Erase(s, i) == SubSeq(s, 1, i - 1) \o SubSeq(s, i + 1, Len(s))

\* if (label->GetParent() == goto_node->GetParent()) { .. erase } else it++
Enclose ==
    /\ pc = "enclose" /\ fault = "none"
    /\ LET goto_node == gotos[it]
           label == LabelOf(goto_node)
       IN  IF ast[label].par = ast[goto_node].par
           THEN \E r \in UNION {IF label \in Before(ast, goto_node)
                                THEN {EncloseDoWhile(r0, goto_node, label)}
                                ELSE EncloseIfThen(r0, goto_node, label,
                                                   disable_else_derivation) :
                                r0 \in {[h |-> ast, f |-> "none", v |-> variables]}} :
                    /\ ast' = r.h
                    /\ fault' = r.f
                    /\ gotos' = IF r.f = "none" THEN Erase(gotos, it) ELSE gotos
                    /\ UNCHANGED it
           ELSE /\ it' = it + 1
                /\ UNCHANGED <<ast, fault, gotos>>
    /\ pc' = "visit"
    /\ UNCHANGED <<zVars, flagVars, main_node, labels_map, labels_count, labels,
                   variables, goto_level, label_level, lit, hist>>

\* the worklist loop ends
VisitEnd ==
    /\ pc = "visit" /\ fault = "none"
    /\ it > Len(gotos)
    /\ pc' = IF full_decompile THEN "rmlabels" ELSE "mark"
    /\ lit' = 1
    /\ UNCHANGED <<ast, fault, zVars, flagVars, main_node, labels_map, labels_count,
                   labels, gotos, variables, it, goto_level, label_level, hist>>

\* the label removal loop stepping over a label without unlinking it
RemoveLabelSkip ==
    /\ pc = "rmlabels" /\ fault = "none"
    /\ lit <= Len(labels)
    /\ lit' = lit + 1
    /\ UNCHANGED <<ast, fault, pc, zVars, flagVars, main_node, labels_map, labels_count,
                   labels, gotos, variables, it, goto_level, label_level, hist>>

\* for (const ASTNode& label : labels) label->GetManager().Remove(label);
RemoveLabel ==
    /\ pc = "rmlabels" /\ fault = "none"
    /\ lit <= Len(labels)
    /\ LET label == labels[lit]
       IN  IF label = NULL \/ ast[label].mgr = NULL
           THEN fault' = "crash" /\ UNCHANGED <<ast, lit>>
           ELSE /\ ast' = Remove(ast, ast[label].mgr, label)
                /\ lit' = lit + 1
                /\ UNCHANGED fault
    /\ UNCHANGED <<pc, zVars, flagVars, main_node, labels_map, labels_count, labels,
                   gotos, variables, it, goto_level, label_level, hist>>

\* labels.clear(); and the return
RemoveLabelsEnd ==
    /\ pc = "rmlabels" /\ fault = "none"
    /\ lit > Len(labels)
    /\ labels' = <<>>
    /\ pc' = "done"
    /\ UNCHANGED <<ast, fault, zVars, flagVars, main_node, labels_map, labels_count,
                   gotos, variables, loopVars, hist>>

\* one iteration of  while (it != labels.end()) { .. }  of backward-only mode;
\* the iterator is not advanced.  hist.marks counts the iterations modulo
\* MaxSpin + 1.
MarkLabel ==
    /\ pc = "mark" /\ fault = "none"
    /\ lit <= Len(labels)
    /\ LET label == labels[lit]
           can_remove == \A i \in 1..Len(gotos) : LabelOf(gotos[i]) # label
       IN  IF \E i \in 1..Len(gotos) : LabelOf(gotos[i]) = -1
           THEN fault' = "crash" /\ UNCHANGED ast
           ELSE IF can_remove /\ label = NULL
           THEN fault' = "crash" /\ UNCHANGED ast
           ELSE /\ ast' = IF can_remove THEN [ast EXCEPT ![label].unused = TRUE] ELSE ast
                /\ UNCHANGED fault
    /\ hist' = [hist EXCEPT !.marks = (@ + 1) % (MaxSpin + 1)]
    /\ UNCHANGED <<pc, zVars, flagVars, main_node, labels_map, labels_count, labels,
                   gotos, variables, loopVars>>

\* the loop of backward-only mode ends
MarkEnd ==
    /\ pc = "mark" /\ fault = "none"
    /\ lit > Len(labels)
    /\ pc' = "done"
    /\ UNCHANGED <<ast, fault, zVars, flagVars, main_node, labels_map, labels_count,
                   labels, gotos, variables, loopVars, hist>>

NextD ==
    \/ ManagerInit
    \/ DeclareLabel
    \/ InsertLabel
    \/ InsertGoto
    \/ InsertBlock
    \/ InsertReturn
    \/ DecompileBegin
    \/ Visit
    \/ Direct
    \/ Outward
    \/ Enclose
    \/ VisitEnd
    \/ RemoveLabel
    \/ RemoveLabelsEnd
    \/ MarkLabel
    \/ MarkEnd

SpecD == InitD /\ [][NextD]_vars


-----------------------------------------------------------------------------
(* Reading the tree and the recorded program.                              *)

\* address of the node the i-th builder call inserted
NodeOf(i) == i + 1

RECURSIVE ReachAcc(_, _, _)
ReachAcc(h, todo, acc) ==
    IF todo = {} THEN acc
    ELSE LET n == CHOOSE x \in todo : TRUE
             kids == Range(Nodes(h, n)) \ (acc \cup {n})
         IN  ReachAcc(h, (todo \ {n}) \cup kids, acc \cup {n})

\* the nodes reachable from the Program node through the child lists
InTree(h) == IF main_node = NULL THEN {} ELSE ReachAcc(h, {main_node}, {})

ItemsOf(kind) == {i \in 1..Len(hist.prog) : hist.prog[i].k = kind}

\* every goto targets an address that was declared and whose label was inserted
TargetsInserted ==
    \A i \in ItemsOf("Goto") :
        /\ hist.prog[i].a \in hist.decl
        /\ \E j \in ItemsOf("Label") : hist.prog[j].a = hist.prog[i].a

\* the decoder's protocol: only declared addresses are used, and every declared
\* label is inserted exactly once
StrictProgram ==
    /\ \A i \in ItemsOf("Goto") \cup ItemsOf("Label") : hist.prog[i].a \in hist.decl
    /\ \A a \in hist.decl : Cardinality({j \in ItemsOf("Label") : hist.prog[j].a = a}) = 1

\* C2: in full-decompile mode, when every goto's target label was declared and
\* inserted, the tree after Decompile is goto-free and the worklist is empty.
C2_GotoFree ==
    (pc = "done" /\ full_decompile /\ StrictProgram) =>
        /\ gotos = <<>>
        /\ \A n \in InTree(ast) : ast[n].kind # "Goto"


-----------------------------------------------------------------------------
(* The goto Decompile is working on, and its scope.                        *)

CurGoto == gotos[it]
CurLabel == LabelOf(CurGoto)

\* the sibling list of node n, in order
Sibs(h, n) == Nodes(h, h[n].mgr)

Pos(s, x) == CHOOSE i \in DOMAIN s : s[i] = x

\* at the Enclose step, goto and label share their parent
AtEnclose ==
    /\ pc = "enclose" /\ fault = "none"
    /\ CurLabel > NULL
    /\ ast[CurLabel].par = ast[CurGoto].par

\* ... the label is an earlier sibling with at least one node between
LoopCase ==
    /\ AtEnclose
    /\ CurLabel \in Before(ast, CurGoto)
    /\ ast[CurLabel].nxt # CurGoto

\* C3: when goto and label share their parent and the label is an earlier
\* sibling with a node between them, the Enclose step of Decompile replaces the
\* run after the label through the goto by one new do-while right after the
\* label, with the goto's condition and exactly the nodes between label and
\* goto as children, in order; the goto leaves the tree and the worklist.
C3_EncloseDoWhile ==
    [][LoopCase =>
        LET g == CurGoto
            l == CurLabel
            S == Sibs(ast, g)
            i == Pos(S, l)
            j == Pos(S, g)
            dw == Len(ast) + 1
        IN  /\ l \in Range(S) /\ g \in Range(S)
            /\ fault' = "none"
            /\ Len(ast') = Len(ast) + 1
            /\ ast'[l].nxt = dw
            /\ ast'[dw].kind = "DoWhile"
            /\ ast'[dw].cond = ast[g].cond
            /\ Nodes(ast', dw) = SubSeq(S, i + 1, j - 1)
            /\ Nodes(ast', ast[g].mgr)
                 = SubSeq(S, 1, i) \o <<dw>> \o SubSeq(S, j + 1, Len(S))
            /\ g \notin InTree(ast')
            /\ gotos' = Erase(gotos, it)
    ]_vars

\* a finished full decompile whose tree holds a do-while with two children
C3_Witness ==
    /\ pc = "done" /\ full_decompile /\ StrictProgram
    /\ \E n \in InTree(ast) : ast[n].kind = "DoWhile" /\ Len(Nodes(ast, n)) >= 2

\* ... the label is a later sibling with at least one node between
BranchCase ==
    /\ AtEnclose
    /\ CurLabel \notin Before(ast, CurGoto)
    /\ ast[CurLabel].prv # CurGoto

\* the else-fusion test of EncloseIfThen succeeds
ElseFusion ==
    LET prev == ast[CurGoto].prv
    IN  /\ ~disable_else_derivation
        /\ prev # NULL
        /\ IsIfThen(ast, prev)
        /\ ExprAreEqual(ast[prev].cond, ast[CurGoto].cond)

\* C4: when goto and label share their parent, the label is a later sibling
\* with a node between them and else-fusion does not apply, the Enclose step
\* replaces the run from the goto up to the label by one new if-then at the
\* goto's position, guarded by the negated goto condition, whose children are
\* exactly the nodes between goto and label in order; the label and what
\* follows keep their order and the goto leaves the tree and the worklist.
C4_EncloseIfThen ==
    [][(BranchCase /\ ~ElseFusion) =>
        LET g == CurGoto
            l == CurLabel
            S == Sibs(ast, g)
            i == Pos(S, g)
            j == Pos(S, l)
            ifn == Len(ast) + 1
        IN  /\ l \in Range(S) /\ g \in Range(S)
            /\ fault' = "none"
            /\ Len(ast') = Len(ast) + 1
            /\ ast'[ifn].kind = "IfThen"
            /\ ast'[ifn].cond = MakeExprNot(ast[g].cond)
            /\ Nodes(ast', ifn) = SubSeq(S, i + 1, j - 1)
            /\ Nodes(ast', ast[g].mgr)
                 = SubSeq(S, 1, i - 1) \o <<ifn>> \o SubSeq(S, j, Len(S))
            /\ g \notin InTree(ast')
            /\ gotos' = Erase(gotos, it)
    ]_vars

\* the label node the i-th inserted item (a goto) targets, as InsertGoto
\* resolved it
TargetOf(i) ==
    LET index == MapIndex(labels_map, hist.prog[i].a)
    IN  IF index < Len(labels) THEN labels[index + 1] ELSE -1

\* gotos whose label was inserted after them
ForwardItems == {i \in ItemsOf("Goto") : TargetOf(i) > NodeOf(i)}

InDecompile == pc \in Running \cup {"mark", "done"}

\* in backward-only mode the forward gotos stay as they were inserted
ForwardKept ==
    (~full_decompile /\ InDecompile) =>
        \A i \in ForwardItems :
            LET g == NodeOf(i)
            IN  /\ g \in InTree(ast)
                /\ ast[g].kind = "Goto"
                /\ ast[g].cond = hist.prog[i].c
                /\ ast[g].idx = MapIndex(labels_map, hist.prog[i].a)
                /\ g \in Range(gotos)

\* the Enclose step on a backward goto makes a do-while and drops the goto
BackwardLooped ==
    (~full_decompile /\ AtEnclose /\ CurLabel \in Before(ast, CurGoto)) =>
        /\ Len(ast') = Len(ast) + 1
        /\ ast'[Len(ast) + 1].kind = "DoWhile"
        /\ ast'[Len(ast) + 1].cond = ast[CurGoto].cond
        /\ CurGoto \notin InTree(ast')
        /\ gotos' = Erase(gotos, it)

\* C5 (as stated): in backward-only mode every goto that is not a backward
\* jump stays in the tree as a Goto node with unchanged condition and target
\* and stays in the worklist, and every backward goto that shares its label's
\* parent is converted to a do-while and removed from the worklist.
C5_BackwardOnlyStated == []ForwardKept /\ [][BackwardLooped]_vars

\* the Enclose step on a backward goto: a do-while unless the goto directly
\* follows its label, then the goto is only removed
BackwardLoopedOrDropped ==
    (~full_decompile /\ AtEnclose /\ CurLabel \in Before(ast, CurGoto)) =>
        /\ fault' = "none"
        /\ CurGoto \notin InTree(ast')
        /\ gotos' = Erase(gotos, it)
        /\ IF ast[CurLabel].nxt = CurGoto
           THEN /\ Len(ast') = Len(ast)
                /\ Nodes(ast', ast[CurGoto].mgr)
                     = SelectSeq(Sibs(ast, CurGoto), LAMBDA n : n # CurGoto)
           ELSE /\ Len(ast') = Len(ast) + 1
                /\ ast'[Len(ast) + 1].kind = "DoWhile"
                /\ ast'[Len(ast) + 1].cond = ast[CurGoto].cond

\* C5: in backward-only mode every goto that is not a backward jump stays in
\* the tree as a Goto node with unchanged condition and target and stays in the
\* worklist; every backward goto that shares its label's parent is removed from
\* tree and worklist, and is replaced by a do-while unless it directly follows
\* its label, in which case no loop is made.
C5_BackwardOnly == []ForwardKept /\ [][BackwardLoopedOrDropped]_vars

\* the worklist pass of a backward-only run is over, a forward goto is still
\* in the tree and a backward one has become a do-while
C5_Witness ==
    /\ ~full_decompile /\ pc = "mark" /\ fault = "none"
    /\ ForwardItems # {}
    /\ \E n \in InTree(ast) : ast[n].kind = "DoWhile"

-----------------------------------------------------------------------------
(* Decompile runs on one call stack to completion: a step that can be      *)
(* taken is taken.                                                         *)

MaxInsertFair == 3

InitDFair ==
    /\ ast = <<>>
    /\ pc = "new"
    /\ fault = "none"
    /\ detached = {}
    /\ zcalls = 0
    /\ full_decompile \in BOOLEAN
    /\ disable_else_derivation \in BOOLEAN
    /\ main_node = NULL
    /\ labels_map = <<>>
    /\ labels_count = 0
    /\ labels = <<>>
    /\ gotos = <<>>
    /\ variables = 0
    /\ it = 0
    /\ goto_level = 0
    /\ label_level = 0
    /\ lit = 0
    /\ hist = [prog |-> <<>>, decl |-> {}, marks |-> 0, first |-> <<>>, last |-> NoCall]
    /\ max_items = MaxInsertFair

SpecDFair == InitDFair /\ [][NextD]_vars /\ WF_vars(NextD)

\* a full-decompile run over a program whose labels were all declared and
\* inserted once has entered Decompile
FullRunStarted == full_decompile /\ StrictProgram /\ pc = "visit"

\* C6: in full-decompile mode Decompile returns to its caller for every
\* program whose referenced labels were all inserted.
C6_FullTerminates == FullRunStarted ~> (pc = "done")

\* a backward-only run over a program with at least one label, all labels
\* declared and inserted once, has entered Decompile
BackwardRunStarted ==
    ~full_decompile /\ StrictProgram /\ labels # <<>> /\ pc = "visit"

\* C7: in backward-only mode Decompile returns for every program, also when
\* the program has labels: the final label pass ends.
C7_BackwardTerminates == BackwardRunStarted ~> (pc = "done")

-----------------------------------------------------------------------------
(* The label passes that end Decompile.                                    *)

\* every address a label or goto names was declared
AllDeclared ==
    \A i \in ItemsOf("Goto") \cup ItemsOf("Label") : hist.prog[i].a \in hist.decl

\* no address has two Label nodes
LabelsOnce ==
    \A i, j \in ItemsOf("Label") : hist.prog[i].a = hist.prog[j].a => i = j

LabelsInTree == {n \in InTree(ast) : ast[n].kind = "Label"}

\* C9 (as stated): in full-decompile mode, after Decompile no Label node is
\* reachable from the Program node and the label table is empty, for every
\* program whose labels were declared.
C9_LabelsUnlinkedStated ==
    (pc = "done" /\ full_decompile /\ AllDeclared) =>
        (labels = <<>> /\ LabelsInTree = {})

\* C9: in full-decompile mode, after Decompile no Label node is reachable from
\* the Program node and the label table is empty, for every program whose
\* labels were declared and in which no address was given two Label nodes.
C9_LabelsUnlinked ==
    (pc = "done" /\ full_decompile /\ AllDeclared /\ LabelsOnce) =>
        (labels = <<>> /\ LabelsInTree = {})

\* a full decompile of a program with two labels, one of them enclosed in a
\* structure by then, has returned
C9_Witness ==
    /\ pc = "done" /\ full_decompile /\ AllDeclared /\ LabelsOnce
    /\ Cardinality(ItemsOf("Label")) = 2
    /\ \E n \in InTree(ast) : ast[n].kind \in {"DoWhile", "IfThen"}

\* the marks the backward-only pass is to leave: a label is unused exactly when
\* no goto of the worklist targets its index, and every label is still linked
MarksRight ==
    \A i \in 1..Len(labels) :
        /\ labels[i] \in InTree(ast)
        /\ ast[labels[i]].unused
             <=> (\A k \in 1..Len(gotos) : ast[gotos[k]].idx # i - 1)

\* C10: in backward-only mode Decompile returns with each label marked unused
\* exactly when no goto left in the worklist targets its index, and with no
\* label unlinked from the tree.
C10_MarksOnReturn == BackwardRunStarted ~> (pc = "done" /\ MarksRight)

-----------------------------------------------------------------------------
(* Execution.  A condition reads predicate registers and synthetic         *)
(* variables; only a Block can change a predicate register, so a run is    *)
(* fixed by the values the predicates have after each number of Block      *)
(* visits.  A run is the sequence of Block nodes visited, ended by the     *)
(* Return node taken, if one is.                                           *)

MaxVisits == 2
MaxSteps == 14
Preds == {0, 1}

\* val[k][p]: the value of predicate p once k Blocks have been visited
Valuations == [0..MaxVisits -> [Preds -> BOOLEAN]]

RECURSIVE Eval(_, _, _)
Eval(e, pv, vs) ==
    CASE e.t = "Pred" -> pv[e.i]
      [] e.t = "Var" -> vs[e.i]
      [] e.t = "Bool" -> e.v
      [] e.t = "Not" -> ~Eval(e.a, pv, vs)
      [] e.t = "And" -> Eval(e.a, pv, vs) /\ Eval(e.b, pv, vs)
      [] e.t = "Or" -> Eval(e.a, pv, vs) \/ Eval(e.b, pv, vs)
      [] OTHER -> FALSE

\* the position of the label a goto of the flat program jumps to
LabelPos(prog, a) == CHOOSE j \in 1..Len(prog) : prog[j].k = "Label" /\ prog[j].a = a

\* the flat program from item p on; end is "end", "return" or "cut" (out of
\* steps or of Block visits)
RECURSIVE FlatRun(_, _, _, _, _)
FlatRun(prog, val, p, t, fuel) ==
    IF p > Len(prog) THEN [t |-> t, end |-> "end"]
    ELSE IF fuel = 0 THEN [t |-> t, end |-> "cut"]
    ELSE LET item == prog[p]
             taken == Eval(item.c, val[Len(t)], <<>>)
         IN  CASE item.k = "Block" ->
                    IF Len(t) = MaxVisits THEN [t |-> t, end |-> "cut"]
                    ELSE FlatRun(prog, val, p + 1, Append(t, NodeOf(p)), fuel - 1)
               [] item.k = "Goto" ->
                    FlatRun(prog, val, IF taken THEN LabelPos(prog, item.a) ELSE p + 1,
                            t, fuel - 1)
               [] item.k = "Return" ->
                    IF taken THEN [t |-> Append(t, NodeOf(p)), end |-> "return"]
                    ELSE FlatRun(prog, val, p + 1, t, fuel - 1)
               [] OTHER -> FlatRun(prog, val, p + 1, t, fuel - 1)

\* the tree: the nodes of a list from node n on.  st.sig is "run" while
\* execution goes on, else what ended it: "break", "return", "cut", or "goto"
\* at a Goto node; last_if is the value the condition of the if-then just before
\* n had, for the if-else that may follow it.
RECURSIVE ExecList(_, _, _, _, _)
RECURSIVE ExecLoop(_, _, _, _)
ExecList(h, val, n, last_if, st) ==
    IF n = NULL \/ st.sig # "run" THEN st
    ELSE IF st.fuel = 0 THEN [st EXCEPT !.sig = "cut"]
    ELSE LET c == h[n]
             on == Eval(c.cond, val[Len(st.t)], st.vs)
             s1 == [st EXCEPT !.fuel = @ - 1]
         IN  CASE c.kind = "BlockEncoded" ->
                    IF Len(st.t) = MaxVisits THEN [st EXCEPT !.sig = "cut"]
                    ELSE ExecList(h, val, c.nxt, last_if, [s1 EXCEPT !.t = Append(@, n)])
               [] c.kind = "VarSet" ->
                    ExecList(h, val, c.nxt, last_if, [s1 EXCEPT !.vs[c.idx] = on])
               [] c.kind = "Break" ->
                    IF on THEN [s1 EXCEPT !.sig = "break"]
                    ELSE ExecList(h, val, c.nxt, last_if, s1)
               [] c.kind = "Return" ->
                    IF on THEN [s1 EXCEPT !.t = Append(@, n), !.sig = "return"]
                    ELSE ExecList(h, val, c.nxt, last_if, s1)
               [] c.kind = "Goto" -> [s1 EXCEPT !.sig = "goto"]
               [] c.kind = "IfThen" ->
                    ExecList(h, val, c.nxt, on,
                             IF on THEN ExecList(h, val, c.first, FALSE, s1) ELSE s1)
               [] c.kind = "IfElse" ->
                    ExecList(h, val, c.nxt, last_if,
                             IF last_if THEN s1 ELSE ExecList(h, val, c.first, FALSE, s1))
               [] c.kind = "DoWhile" ->
                    ExecList(h, val, c.nxt, last_if, ExecLoop(h, val, n, s1))
               [] OTHER -> ExecList(h, val, c.nxt, last_if, s1)

\* do { children of n } while (condition of n)
ExecLoop(h, val, n, st) ==
    IF st.fuel = 0 THEN [st EXCEPT !.sig = "cut"]
    ELSE Bind(ExecList(h, val, h[n].first, FALSE, [st EXCEPT !.fuel = @ - 1]), LAMBDA s1 :
         IF s1.sig = "break" THEN [s1 EXCEPT !.sig = "run"]
         ELSE IF s1.sig # "run" THEN s1
         ELSE IF Eval(h[n].cond, val[Len(s1.t)], s1.vs) THEN ExecLoop(h, val, n, s1)
         ELSE s1)

TreeRun(h, val) ==
    ExecList(h, val, h[main_node].first, FALSE,
             [t |-> <<>>, vs |-> [i \in 0..variables |-> FALSE], sig |-> "run",
              fuel |-> MaxSteps])

\* Decompile returned from a full decompile of a well-formed program and left
\* no goto
Structured ==
    /\ pc = "done" /\ fault = "none" /\ full_decompile /\ StrictProgram
    /\ gotos = <<>>
    /\ \A n \in InTree(ast) : ast[n].kind # "Goto"

-----------------------------------------------------------------------------
(* Addresses that were never declared.                                     *)

\* C12: InsertGoto and InsertLabel reject an address that was never passed to
\* DeclareLabel: no node is made for it, the address-to-index map gets no
\* entry for it, and so it never resolves to the index of a declared label.
C12_UndeclaredRejected ==
    (pc = "build" /\ fault = "none") =>
        (AllDeclared /\ DOMAIN labels_map \subseteq hist.decl)

\* C13: after any sequence of DeclareLabel calls the addresses hold the
\* indices 0..n-1 in the order of their first declaration, and labels_count
\* and the size of the label table equal the number n of distinct addresses;
\* a repeated declaration therefore keeps the index, the count and the size.
C13_DeclareIdempotent ==
    (pc = "build" /\ fault = "none" /\ hist.prog = <<>>) =>
        /\ labels_count = Len(hist.first)
        /\ Len(labels) = Len(hist.first)
        /\ DOMAIN labels_map = hist.decl
        /\ \A i \in 1..Len(hist.first) : labels_map[hist.first[i]] = i - 1

C13_Witness ==
    /\ pc = "build" /\ fault = "none" /\ hist.prog = <<>>
    /\ hist.last.op = "DeclareLabel" /\ hist.last.re
    /\ hist.last.a = hist.first[1]
    /\ Len(hist.first) = MaxAddr

-----------------------------------------------------------------------------
(* Teardown.  ASTClearer walks a container's list from its first node,     *)
(* clearing each node it visited before it reads that node's successor.    *)

\* ASTBase::Clear
NodeClear(h, n) ==
    [h EXCEPT ![n].nxt = NULL, ![n].prv = NULL, ![n].par = NULL, ![n].mgr = NULL]

RECURSIVE ClearerVisit(_, _), ClearerWalk(_, _)
\* ASTClearer::Visit
ClearerVisit(h, node) ==
    Bind(IF h[node].kind \in {"Program", "IfThen", "IfElse", "DoWhile"}
         THEN ClearerWalk(h, h[node].first) ELSE h,
         LAMBDA inner : NodeClear(inner, node))

\* while (current) { Visit(current); current = current->GetNext(); }
ClearerWalk(h, current) ==
    IF current = NULL THEN h
    ELSE Bind(ClearerVisit(h, current), LAMBDA h1 : ClearerWalk(h1, h1[current].nxt))

\* a Clear without the test of main_node
ClearAgain ==
    /\ pc \in {"new", "build", "done", "cleared"} /\ fault = "none"
    /\ IF main_node = NULL
       THEN /\ fault' = "crash"
            /\ UNCHANGED <<ast, pc, main_node, labels_map, labels, gotos>>
       ELSE /\ ast' = ClearerVisit(ast, main_node)
            /\ main_node' = NULL
            /\ labels_map' = <<>>
            /\ labels' = <<>>
            /\ gotos' = <<>>
            /\ pc' = "cleared"
            /\ UNCHANGED fault
    /\ hist' = [hist EXCEPT !.last = Called("Clear", 0, main_node = NULL)]
    /\ UNCHANGED <<zVars, flagVars, labels_count, variables, loopVars>>

\* ASTManager::Clear, also run by ~ASTManager
Clear ==
    /\ pc \in {"new", "build", "done", "cleared"} /\ fault = "none"
    /\ IF main_node = NULL
       THEN UNCHANGED <<ast, pc, main_node, labels_map, labels, gotos>>
       ELSE /\ ast' = ClearerVisit(ast, main_node)
            /\ main_node' = NULL
            /\ labels_map' = <<>>
            /\ labels' = <<>>
            /\ gotos' = <<>>
            /\ pc' = "cleared"
    /\ hist' = [hist EXCEPT !.last = Called("Clear", 0, main_node = NULL)]
    /\ UNCHANGED <<fault, zVars, flagVars, labels_count, variables, loopVars>>

\* the session from construction to teardown
NextL == NextD \/ Clear

SpecL == InitDFair /\ [][NextL]_vars

ClearCalled == hist'.last.op = "Clear" /\ hist'.last # hist.last

\* C14: a Clear never fails and leaves the root absent and the address map,
\* the label table and the goto worklist empty; a Clear that finds the root
\* absent (cleared before, or never initialised) changes no state.
C14_ClearIdempotent ==
    [][ClearCalled =>
          /\ fault' = "none"
          /\ main_node' = NULL /\ labels_map' = <<>> /\ labels' = <<>> /\ gotos' = <<>>
          /\ (main_node = NULL =>
                 UNCHANGED <<ast, pc, zVars, flagVars, main_node, labels_map,
                             labels_count, labels, gotos, variables, loopVars>>)]_vars

C14_Witness ==
    /\ pc = "cleared" /\ fault = "none"
    /\ hist.last = Called("Clear", 0, TRUE)
    /\ \E n \in 1..Len(ast) : ast[n].kind = "DoWhile"

-----------------------------------------------------------------------------
(* The expression functions applied to expressions of a bounded set.       *)
(* hist holds the arguments a and b, the function applied last (f) and     *)
(* its result (r).                                                         *)

MaxExprIndex == 1

ExprLeaves ==
    UNION {{ExprVar(i), ExprPredicate(i), ExprCondCode(i)} : i \in 0..MaxExprIndex}
        \cup {ExprBoolean(TRUE), ExprBoolean(FALSE)}

ExprOperands ==
    {ExprVar(0), ExprVar(MaxExprIndex), ExprPredicate(MaxExprIndex),
     ExprBoolean(TRUE), ExprNot(ExprVar(0))}

\* MakeExpr<ExprNot>, MakeExpr<ExprAnd>, MakeExpr<ExprOr> over the leaves
ExprSet ==
    LET binary == UNION {{ExprAnd(x, y), ExprOr(x, y)} : x, y \in ExprOperands}
        flat == ExprLeaves \cup binary
        nots == {ExprNot(x) : x \in flat}
    IN  flat \cup nots \cup {ExprNot(x) : x \in nots}

InitX ==
    /\ ast = <<>>
    /\ pc = "expr"
    /\ fault = "none"
    /\ detached = {}
    /\ zcalls = 0
    /\ full_decompile = TRUE
    /\ disable_else_derivation = FALSE
    /\ main_node = NULL
    /\ labels_map = <<>>
    /\ labels_count = 0
    /\ labels = <<>>
    /\ gotos = <<>>
    /\ variables = 0
    /\ it = 0
    /\ goto_level = 0
    /\ label_level = 0
    /\ lit = 0
    /\ max_items = 0
    /\ \E a, b \in ExprSet : hist = [a |-> a, b |-> b, f |-> "none", r |-> a]

XApply(from, f, r) ==
    /\ pc = "expr"
    /\ hist.f = from
    /\ hist' = [hist EXCEPT !.f = f, !.r = r]
    /\ UNCHANGED <<ast, pc, fault, zVars, idleVars>>

\* MakeExprNot of a, and MakeExprNot of that result
XMakeExprNot ==
    \/ XApply("none", "Not", MakeExprNot(hist.a))
    \/ XApply("Not", "NotNot", MakeExprNot(hist.r))

XMakeExprAnd == XApply("none", "And", MakeExprAnd(hist.a, hist.b))

XMakeExprOr == XApply("none", "Or", MakeExprOr(hist.a, hist.b))

XExprAreEqual == XApply("none", "Equal", ExprAreEqual(hist.a, hist.b))

\* ExprAreOpposite of a and b, and of a and MakeExprNot(a)
XExprAreOpposite ==
    \/ XApply("none", "Opposite", ExprAreOpposite(hist.a, hist.b))
    \/ XApply("Not", "OppositeNot", ExprAreOpposite(hist.a, hist.r))

NextX ==
    \/ XMakeExprNot
    \/ XMakeExprAnd
    \/ XMakeExprOr
    \/ XExprAreEqual
    \/ XExprAreOpposite

SpecX == InitX /\ [][NextX]_vars

\* C15: with a literal in either operand position, MakeExprAnd with false is
\* false and with true is the other operand, MakeExprOr with false is the
\* other operand and with true is true (structural equality).
C15_Folding ==
    /\ hist.f = "And" =>
          /\ hist.b = ExprBoolean(FALSE) => ExprAreEqual(hist.r, ExprBoolean(FALSE))
          /\ hist.a = ExprBoolean(FALSE) => ExprAreEqual(hist.r, ExprBoolean(FALSE))
          /\ hist.b = ExprBoolean(TRUE) => ExprAreEqual(hist.r, hist.a)
          /\ hist.a = ExprBoolean(TRUE) => ExprAreEqual(hist.r, hist.b)
    /\ hist.f = "Or" =>
          /\ hist.b = ExprBoolean(FALSE) => ExprAreEqual(hist.r, hist.a)
          /\ hist.a = ExprBoolean(FALSE) => ExprAreEqual(hist.r, hist.b)
          /\ hist.b = ExprBoolean(TRUE) => ExprAreEqual(hist.r, ExprBoolean(TRUE))
          /\ hist.a = ExprBoolean(TRUE) => ExprAreEqual(hist.r, ExprBoolean(TRUE))

C15_Witness ==
    /\ pc = "expr" /\ hist.f = "And"
    /\ hist.a.t = "Or" /\ hist.b = ExprBoolean(FALSE)
    /\ hist.r = ExprBoolean(FALSE)

\* C16 as stated: MakeExprNot(MakeExprNot(a)) is structurally equal to a for
\* every expression a, a NOT of a NOT included.
C16_DoubleNotStated ==
    (pc = "expr" /\ hist.f = "NotNot") => ExprAreEqual(hist.r, hist.a)

NotOfNot(a) == a.t = "Not" /\ a.a.t = "Not"

\* C16: MakeExprNot(MakeExprNot(a)) is structurally equal to a for every a
\* that is not a NOT of a NOT; for a = Not(Not(y)) it is y.
C16_DoubleNot ==
    (pc = "expr" /\ hist.f = "NotNot") =>
        IF NotOfNot(hist.a) THEN ExprAreEqual(hist.r, hist.a.a.a)
        ELSE ExprAreEqual(hist.r, hist.a)

C16_Witness ==
    /\ pc = "expr" /\ hist.f = "NotNot"
    /\ hist.a.t = "Not" /\ hist.a.a.t = "And"
    /\ hist.r = hist.a

\* C17: ExprAreOpposite(a, MakeExprNot(a)) is true for every a, and
\* ExprAreOpposite(a, a) is false unless a is a NOT whose operand equals a.
C17_Opposite ==
    /\ (pc = "expr" /\ hist.f = "OppositeNot") => hist.r = TRUE
    /\ (pc = "expr" /\ hist.f = "Opposite" /\ hist.b = hist.a) =>
          (hist.r <=> (hist.a.t = "Not" /\ ExprAreEqual(hist.a.a, hist.a)))

C17_Witness ==
    /\ pc = "expr" /\ hist.f = "OppositeNot"
    /\ NotOfNot(hist.a)
    /\ hist.r = TRUE

\* C18: ExprAreEqual is structural equality: it holds exactly of expressions
\* of the same shape, is reflexive, symmetric and transitive, is false for
\* different tags whatever the payload, and compares the operands of AND
\* and OR by position.
C18_Structural ==
    (pc = "expr" /\ hist.f = "Equal") =>
        /\ hist.r <=> (hist.a = hist.b)
        /\ ExprAreEqual(hist.a, hist.a)
        /\ hist.r <=> ExprAreEqual(hist.b, hist.a)
        /\ \A c \in ExprSet : (hist.r /\ ExprAreEqual(hist.b, c)) => ExprAreEqual(hist.a, c)
        /\ hist.a.t # hist.b.t => ~hist.r
        /\ (hist.a.t \in {"And", "Or"} /\ hist.b.t = hist.a.t
               /\ hist.b.a = hist.a.b /\ hist.b.b = hist.a.a) =>
              (hist.r <=> ExprAreEqual(hist.a.a, hist.a.b))

C18_Witness ==
    /\ pc = "expr" /\ hist.f = "Equal"
    /\ hist.a.t = "And" /\ hist.b = ExprAnd(hist.a.b, hist.a.a)
    /\ hist.a.a.t = "Var" /\ hist.a.b.t = "Pred" /\ hist.a.a.i = hist.a.b.i
    /\ hist.r = FALSE

-----------------------------------------------------------------------------
(* Order of insertion and order of the worklist.                           *)

\* the nodes of the builder calls, in call order
Inserted == [i \in 1..Len(hist.prog) |-> NodeOf(i)]

IsGoto(n) == ast[n].kind = "Goto"

\* the children of the root are the inserted nodes in call order, each with
\* the root as parent, and the worklist holds the gotos among them in order
CallOrder ==
    /\ Nodes(ast, main_node) = Inserted
    /\ \A i \in 1..Len(hist.prog) :
          /\ ast[NodeOf(i)].par = main_node
          /\ ast[NodeOf(i)].kind =
                (IF hist.prog[i].k = "Block" THEN "BlockEncoded" ELSE hist.prog[i].k)
    /\ gotos = SelectSeq(Inserted, IsGoto)

\* the worklist lists its gotos in the order of their insertion
WorklistInOrder ==
    \A i, j \in 1..Len(gotos) : i < j => gotos[i] < gotos[j]

\* the iterator stays, steps to the next entry, or stays while its entry is
\* erased: the goto under it is never one inserted before the goto it left
ForwardPass ==
    /\ gotos' \in {gotos, Erase(gotos, it)} \/ it = 0
    /\ it' \in {it, it + 1}
    /\ (it \in 1..Len(gotos) /\ it' \in 1..Len(gotos')) => gotos'[it'] >= gotos[it]

\* C19: each Insert call appends its node as last child of the Program root,
\* with the root as parent, so the children are in call order; the gotos
\* enter the worklist in that order, and Decompile goes through the worklist
\* once, from the goto inserted first to the goto inserted last.
C19_CallOrder ==
    /\ []((pc = "build" /\ fault = "none") => CallOrder)
    /\ []WorklistInOrder
    /\ [][ForwardPass]_vars

C19_Witness ==
    /\ pc = "visit" /\ fault = "none"
    /\ Len(hist.prog) = MaxInsert
    /\ hist.prog[1].k = "Block" /\ hist.prog[2].k = "Goto" /\ hist.prog[4].k = "Goto"
    /\ it = 2 /\ Len(gotos) = 2

-----------------------------------------------------------------------------
(* Back-references of the tree Decompile leaves.                           *)

\* C20: when Decompile has returned, every node reachable from the Program
\* root has as parent the owner of the list that holds it and as manager
\* that list (stated here for the programs whose labels were all declared
\* and inserted once).
C20_TreeBackRefs ==
    (pc = "done" /\ fault = "none" /\ StrictProgram) =>
        \A z \in InTree(ast) :
            \A i \in 1..Len(Nodes(ast, z)) :
                LET n == Nodes(ast, z)[i]
                IN  ast[n].par = z /\ ast[n].mgr = z

-----------------------------------------------------------------------------
(* Gotos the worklist loop stepped over.                                   *)

\* C22: a goto that Decompile leaves unenclosed in full-decompile mode is
\* left for a later pass and reconsidered: the worklist loop is not left for
\* the label pass and the return from a scan that stepped over a goto.
C22_Reconsidered ==
    [][(full_decompile /\ StrictProgram /\ pc = "visit" /\ fault = "none" /\ it > 1)
          => pc' # "rmlabels"]_vars

-----------------------------------------------------------------------------
(* Longer programs in full-decompile mode: labels and gotos only, so that  *)
(* gotos come to sit inside loops and branches made for earlier gotos.     *)

MaxInsertDeep == 5

InitDeep ==
    /\ ast = <<>>
    /\ pc = "new"
    /\ fault = "none"
    /\ detached = {}
    /\ zcalls = 0
    /\ full_decompile = TRUE
    /\ disable_else_derivation \in BOOLEAN
    /\ main_node = NULL
    /\ labels_map = <<>>
    /\ labels_count = 0
    /\ labels = <<>>
    /\ gotos = <<>>
    /\ variables = 0
    /\ it = 0
    /\ goto_level = 0
    /\ label_level = 0
    /\ lit = 0
    /\ hist = [prog |-> <<>>, decl |-> {}, marks |-> 0, first |-> <<>>, last |-> NoCall]
    /\ max_items = MaxInsertDeep

NextDeep ==
    \/ ManagerInit
    \/ DeclareLabel
    \/ InsertLabel
    \/ InsertGoto
    \/ DecompileBegin
    \/ Visit
    \/ Direct
    \/ Outward
    \/ Enclose
    \/ VisitEnd
    \/ RemoveLabel
    \/ RemoveLabelsEnd

SpecDeep == InitDeep /\ [][NextDeep]_vars

\* the loop  while (!DirectlyRelated(goto_node, label)) MoveOutward(goto_node)
\* is about to call MoveOutward
IndirectMove ==
    pc = "indirect" /\ fault = "none" /\ ~DirectlyRelated(ast, CurGoto, CurLabel)

\* C23: for a goto indirectly related to its label, MoveOutward is called
\* only while the goto is below root level and not a sibling of the label;
\* each call succeeds and lifts the goto by one level, and the loop ends
\* with the goto directly related to the label.
C23_IndirectLoop ==
    /\ [](IndirectMove =>
             /\ ast[CurGoto].par # main_node
             /\ ast[CurGoto].par # ast[CurLabel].par)
    /\ [][IndirectMove =>
             /\ fault' = "none" /\ pc' = "indirect"
             /\ GetLevel(ast', CurGoto) = GetLevel(ast, CurGoto) - 1]_vars
    /\ [][(pc = "indirect" /\ pc' # "indirect") =>
             (pc' = "direct" /\ DirectlyRelated(ast, CurGoto, CurLabel))]_vars

C23_Witness ==
    /\ pc = "indirect" /\ fault = "none"
    /\ DirectlyRelated(ast, CurGoto, CurLabel)
    /\ ast[CurGoto].par = main_node
    /\ GetLevel(ast, CurLabel) >= 2

\* the loop  while (label_level < goto_level) { MoveOutward; goto_level--; }
\* is about to call MoveOutward
LiftMove == pc = "lift" /\ fault = "none" /\ label_level < goto_level

Moving == IndirectMove \/ LiftMove

\* s with the element at position i replaced by the elements of by
Splice(s, i, by) == SubSeq(s, 1, i - 1) \o by \o SubSeq(s, i + 1, Len(s))

\* C25: MoveOutward of a goto whose parent is a do-while allocates a fresh
\* variable v, puts VarSet(v, false) immediately before the loop in the
\* loop's own list, VarSet(v, the goto's old condition) followed by Break(v)
\* where the goto stood, sets the goto's condition to Var(v) and makes the
\* goto the sibling right after the loop with the loop's parent as parent;
\* the other nodes of the body and of the enclosing list keep their order.
C25_OutOfLoop ==
    [][(Moving /\ IsLoop(ast, ast[CurGoto].par)) =>
        LET g == CurGoto
            loop == ast[g].par
            v == variables
            var_node == NewNode(ast)
            var_node_init == var_node + 1
            break_node == var_node + 2
            body == Nodes(ast, loop)
            outer == Sibs(ast, loop)
        IN  /\ fault' = "none"
            /\ variables' = v + 1
            /\ g \in Range(body) /\ loop \in Range(outer)
            /\ Len(ast') = break_node
            /\ ast'[var_node_init].kind = "VarSet"
            /\ ast'[var_node_init].idx = v
            /\ ast'[var_node_init].cond = false_condition
            /\ ast'[var_node].kind = "VarSet"
            /\ ast'[var_node].idx = v
            /\ ast'[var_node].cond = ast[g].cond
            /\ ast'[break_node].kind = "Break"
            /\ ast'[break_node].cond = ExprVar(v)
            /\ ast'[g].cond = ExprVar(v)
            /\ ast'[g].par = ast[loop].par
            /\ ast'[g].mgr = ast[loop].mgr
            /\ Nodes(ast', loop) = Splice(body, Pos(body, g), <<var_node, break_node>>)
            /\ Sibs(ast', loop) =
                  Splice(outer, Pos(outer, loop), <<var_node_init, loop, g>>)]_vars

C25_Witness ==
    /\ pc \in {"indirect", "lift", "direct"} /\ fault = "none"
    /\ ast[CurGoto].prv # NULL
    /\ IsLoop(ast, ast[CurGoto].prv)
    /\ ast[ast[CurGoto].prv].last # NULL
    /\ ast[ast[ast[CurGoto].prv].last].kind = "Break"
    /\ ast[ast[ast[CurGoto].prv].last].cond = ast[CurGoto].cond
    /\ Len(Nodes(ast, ast[CurGoto].prv)) >= 3

\* C26: MoveOutward of a goto whose parent is an if-then or an if-else puts
\* VarSet(v, the goto's old condition) where the goto stood; the siblings
\* that followed the goto become, in their order, the children of a new
\* if-then guarded by NOT Var(v) that stands right after that VarSet and ends
\* the list; when nothing followed the goto no if-then is made; the siblings
\* before the goto stay where they were, with their own children.
C26_OutOfIf ==
    [][(Moving /\ (IsIfThen(ast, ast[CurGoto].par) \/ IsIfElse(ast, ast[CurGoto].par))) =>
        LET g == CurGoto
            parent == ast[g].par
            v == variables
            var_node == NewNode(ast)
            if_node == var_node + 2
            body == Nodes(ast, parent)
        IN  /\ fault' = "none"
            /\ g \in Range(body)
            /\ LET i == Pos(body, g)
                   before == SubSeq(body, 1, i - 1)
                   after == SubSeq(body, i + 1, Len(body))
               IN  /\ ast'[var_node].kind = "VarSet"
                   /\ ast'[var_node].idx = v
                   /\ ast'[var_node].cond = ast[g].cond
                   /\ \A n \in Range(before) :
                         /\ ast'[n].kind = ast[n].kind
                         /\ ast'[n].cond = ast[n].cond
                         /\ Nodes(ast', n) = Nodes(ast, n)
                   /\ IF after = <<>>
                      THEN /\ Len(ast') = var_node + 1
                           /\ Nodes(ast', parent) = before \o <<var_node>>
                      ELSE /\ Len(ast') = if_node
                           /\ Nodes(ast', parent) = before \o <<var_node, if_node>>
                           /\ ast'[if_node].kind = "IfThen"
                           /\ ast'[if_node].cond = ExprNot(ExprVar(v))
                           /\ Nodes(ast', if_node) = after]_vars

\* a goto has just left an if-then or if-else in which a sibling followed it
C26_Witness ==
    /\ pc \in {"indirect", "lift"} /\ fault = "none"
    /\ ast[CurGoto].cond.t = "Var"
    /\ \E p \in InTree(ast) :
          /\ p \in Before(ast, CurGoto)
          /\ IsIfThen(ast, p) \/ IsIfElse(ast, p)
          /\ ast[p].last # NULL
          /\ IsIfThen(ast, ast[p].last)
          /\ ast[ast[p].last].cond = ExprNot(ast[CurGoto].cond)
          /\ ast[ast[p].last].first # NULL
          /\ ast[ast[p].last].prv # NULL
          /\ ast[ast[ast[p].last].prv].kind = "VarSet"
          /\ ast[ast[ast[p].last].prv].prv # NULL

-----------------------------------------------------------------------------
(* MoveOutward called on its own.  Decompile only calls it on a goto that  *)
(* lies inside a do-while, an if-then or an if-else; here it is applied to *)
(* a goto of the program as built, whose parent is the Program root.       *)

MoveOutwardAlone ==
    \E i \in DOMAIN gotos :
        /\ pc = "build" /\ fault = "none"
        /\ DoMoveOutward(gotos[i])
        /\ hist' = [hist EXCEPT !.last = Called("MoveOutward", gotos[i], FALSE)]
        /\ UNCHANGED <<pc, zVars, flagVars, main_node, labels_map, labels_count,
                       labels, gotos, loopVars>>

NextM == NextD \/ MoveOutwardAlone

SpecM == InitD /\ [][NextM]_vars

\* C28: MoveOutward on a goto that is a direct child of the Program root
\* ends in the fatal error of its last branch and leaves every node of the
\* tree, the goto included, as it was.
C28_FatalNoChange ==
    [][(fault = "none" /\ hist'.last.op = "MoveOutward") =>
          (fault' = "unreachable" /\ ast' = ast)]_vars

\* C29: when EncloseIfThen wraps a segment of a program whose labels are
\* declared and inserted once, the node it makes is an if-else
\* exactly when else-derivation is enabled and the goto's previous sibling is
\* an if-then whose condition equals the goto's, and the if-else then stands
\* right after that if-then; in every other case it is an if-then guarded by
\* the negated goto condition; with else-derivation disabled the tree never
\* holds an if-else.
C29_ElseExactly ==
    /\ [][(StrictProgram /\ BranchCase) =>
            LET if_node == NewNode(ast)
            IN  /\ fault' = "none"
                /\ Len(ast') = if_node
                /\ IF ElseFusion
                   THEN /\ IsIfElse(ast', if_node)
                        /\ ast'[if_node].prv = ast[CurGoto].prv
                   ELSE /\ IsIfThen(ast', if_node)
                        /\ ast'[if_node].cond = MakeExprNot(ast[CurGoto].cond)]_vars
    /\ [](disable_else_derivation => \A n \in DOMAIN ast : ~IsIfElse(ast, n))

\* C30: when EncloseIfThen wraps the segment after a forward goto that is the
\* first child of its scope, in either else-derivation setting it ends
\* without fault, the node it makes is an if-then guarded by the negated goto
\* condition, and that if-then is the first child of the scope.
C30_FirstChild ==
    [][(StrictProgram /\ BranchCase /\ ast[CurGoto].prv = NULL) =>
          LET if_node == NewNode(ast)
          IN  /\ fault' = "none"
              /\ Len(ast') = if_node
              /\ IsIfThen(ast', if_node)
              /\ ast'[if_node].cond = MakeExprNot(ast[CurGoto].cond)
              /\ ast'[ast[CurGoto].par].first = if_node]_vars

\* at the Enclose step the goto stands right after or right before its label
AdjacentCase ==
    /\ AtEnclose
    /\ ast[CurLabel].nxt = CurGoto \/ ast[CurLabel].prv = CurGoto

\* s without the element x
Without(s, x) == SelectSeq(s, LAMBDA y : y # x)

\* C31: when the goto of the visit is the next or the previous sibling of its
\* label, the Enclose step only removes the goto: no node is made, the goto
\* leaves the tree and the worklist, and every other node keeps its kind,
\* its parent, its list and its place among its siblings.
C31_AdjacentRemoved ==
    [][AdjacentCase =>
          /\ fault' = "none"
          /\ Len(ast') = Len(ast)
          /\ gotos' = Erase(gotos, it)
          /\ InTree(ast') = InTree(ast) \ {CurGoto}
          /\ \A n \in InTree(ast) \ {CurGoto} :
                /\ ast'[n].kind = ast[n].kind
                /\ ast'[n].cond = ast[n].cond
                /\ ast'[n].par = ast[n].par
                /\ ast'[n].mgr = ast[n].mgr
                /\ Nodes(ast', n) = Without(Nodes(ast, n), CurGoto)]_vars

\* a full decompile has resolved every goto of a program without making a node
C31_Witness ==
    /\ pc = "done" /\ fault = "none" /\ full_decompile /\ StrictProgram
    /\ ItemsOf("Goto") # {}
    /\ gotos = <<>>
    /\ \A n \in DOMAIN ast : ast[n].kind \notin {"DoWhile", "IfThen", "IfElse"}

\* C32: Decompile never lengthens the worklist and erases an entry exactly
\* when the goto leaves the tree, so between visits and at return, on a
\* program whose labels are declared and inserted once, the Goto nodes
\* reachable from the Program root are the entries of the worklist, each
\* entry occurring once.
C32_WorklistIsTree ==
    /\ [][(pc \notin {"new", "build"} /\ fault = "none" /\ fault' = "none") =>
            /\ Len(gotos') <= Len(gotos)
            /\ \A g \in Range(gotos) :
                  (g \notin Range(gotos')) <=> (g \in InTree(ast) /\ g \notin InTree(ast'))]_vars
    /\ []((StrictProgram /\ fault = "none" /\ pc \in {"visit", "done"}) =>
            /\ Range(gotos) = {n \in InTree(ast) : IsGoto(n)}
            /\ Cardinality(Range(gotos)) = Len(gotos))

\* Decompile has returned on a program of which it resolved one goto and
\* left another in the tree
C32_Witness ==
    /\ pc = "done" /\ fault = "none" /\ StrictProgram
    /\ gotos # <<>>
    /\ Len(gotos) < Cardinality(ItemsOf("Goto"))

\* the nodes of heap h that name variable v: a VarSet of v, or a Break or
\* Goto whose condition is Var(v)
UsesOf(h, v) ==
    {n \in DOMAIN h : \/ h[n].kind = "VarSet" /\ h[n].idx = v
                      \/ h[n].kind \in {"Break", "Goto"} /\ h[n].cond = ExprVar(v)}

RECURSIVE Preorder(_, _, _)
Preorder(h, ns, d) ==
    IF ns = <<>> \/ d = 0 THEN <<>>
    ELSE <<Head(ns)>> \o Preorder(h, Nodes(h, Head(ns)), d - 1)
                      \o Preorder(h, Tail(ns), d)

\* the Block and Return nodes of the tree in depth-first order
Statements ==
    SelectSeq(Preorder(ast, <<main_node>>, Len(ast)),
              LAMBDA n : ast[n].kind \in {"BlockEncoded", "Return"})

-----------------------------------------------------------------------------
(* Detaching and removing, one call at a time.                             *)

\* the zipper call op was made on a well-formed list holding its node n, and
\* returned
ZDone(op) ==
    /\ ZCalled /\ fault' = "none"
    /\ hist'.op = op
    /\ Owned(hist', ast)
    /\ WellFormed(ast, hist'.z)
    /\ hist'.n \in Range(Nodes(ast, hist'.z))

\* C35: DetachTail(n) leaves in the list exactly the nodes that came before
\* n, in order (none when n was first); the nodes from n to the former last
\* node stay chained in order, n without a previous, and each of them has its
\* manager and its parent cleared.
C35_DetachTail ==
    [][ZDone("DetachTail") =>
          LET z == hist'.z
              n == hist'.n
              ns == Nodes(ast, z)
              i == Pos(ns, n)
          IN  /\ Nodes(ast', z) = SubSeq(ns, 1, i - 1)
              /\ Chain(ast', n) = SubSeq(ns, i, Len(ns))
              /\ ast'[n].prv = NULL
              /\ \A k \in i..Len(ns) :
                    ast'[ns[k]].mgr = NULL /\ ast'[ns[k]].par = NULL]_vars

\* C36: DetachSegment(start, end) on a well-formed list that holds and owns
\* both nodes:
\* when end is met from start along next, the call returns, the list keeps
\* its other nodes in order and stays well formed, the run start..end stays
\* chained in order with no previous at start and no next at end, and every
\* node of the run has manager and parent cleared; when end is not met from
\* start the call fails its assertion.
C36_DetachSegment ==
    [][(ZCalled /\ hist'.op = "DetachSegment" /\ WellFormed(ast, hist'.z)
           /\ Owned(hist', ast)
           /\ {hist'.n, hist'.m} \subseteq Range(Nodes(ast, hist'.z))) =>
          LET z == hist'.z
              start == hist'.n
              end == hist'.m
              ns == Nodes(ast, z)
              i == Pos(ns, start)
              j == Pos(ns, end)
          IN  IF i <= j
              THEN /\ fault' = "none"
                   /\ Nodes(ast', z) = SubSeq(ns, 1, i - 1) \o SubSeq(ns, j + 1, Len(ns))
                   /\ WellFormed(ast', z)
                   /\ Chain(ast', start) = SubSeq(ns, i, j)
                   /\ ast'[start].prv = NULL
                   /\ ast'[end].nxt = NULL
                   /\ \A k \in i..j : ast'[ns[k]].mgr = NULL /\ ast'[ns[k]].par = NULL
              ELSE fault' = "assert"]_vars

\* a run of two nodes or more was detached from a list that keeps a node
C36_Witness ==
    /\ pc = "zipper" /\ fault = "none"
    /\ hist.op = "DetachSegment" /\ hist.n # hist.m
    /\ ast[hist.n].mgr = NULL /\ ast[hist.m].mgr = NULL
    /\ ast[hist.n].nxt # NULL
    /\ ast[hist.z].first # NULL

\* C37: Remove(n) on a well-formed list that owns n leaves every node and
\* both lists' ends exactly as DetachSingle(n) would: the same remaining
\* sequence, the same first and last, and n with manager, parent, next and
\* previous cleared.
C37_RemoveAsDetach ==
    [][ZDone("Remove") =>
          /\ ast' = DetachSingle(ast, hist'.z, hist'.n)
          /\ ast'[hist'.n].nxt = NULL /\ ast'[hist'.n].prv = NULL
          /\ ast'[hist'.n].mgr = NULL /\ ast'[hist'.n].par = NULL]_vars

\* C38: after any sequence of zipper calls that all returned, no node is met
\* along next from the first pointers of two different lists.
C38_OneListPerNode ==
    (pc = "zipper" /\ fault = "none") =>
        \A y, z \in ZOwner :
            y # z => Range(Nodes(ast, y)) \cap Range(Nodes(ast, z)) = {}

-----------------------------------------------------------------------------
(* Expressions: opposites and truth values.                                *)

\* C39: ExprAreOpposite(a, b) is true exactly when a is a NOT whose operand
\* equals b or b is a NOT whose operand equals a, and so has the same value
\* with its arguments exchanged, also when both are NOT nodes.
C39_OppositeExact ==
    (pc = "expr" /\ hist.f = "Opposite") =>
        /\ hist.r <=> \/ hist.a.t = "Not" /\ ExprAreEqual(hist.a.a, hist.b)
                      \/ hist.b.t = "Not" /\ ExprAreEqual(hist.b.a, hist.a)
        /\ hist.r <=> ExprAreOpposite(hist.b, hist.a)

\* the assignments of truth values to the variables, predicates and
\* condition codes the expressions name
Assignments == [ExprLeaves \ {ExprBoolean(TRUE), ExprBoolean(FALSE)} -> BOOLEAN]

\* the truth value of expression e under assignment val
RECURSIVE Truth(_, _)
Truth(e, val) ==
    CASE e.t = "Bool" -> e.v
      [] e.t = "Not" -> ~Truth(e.a, val)
      [] e.t = "And" -> Truth(e.a, val) /\ Truth(e.b, val)
      [] e.t = "Or" -> Truth(e.a, val) \/ Truth(e.b, val)
      [] OTHER -> val[e]

\* C40: under every assignment MakeExprNot(a) has the truth value NOT a,
\* MakeExprAnd(a, b) the value a AND b and MakeExprOr(a, b) the value a OR b,
\* whether the result was folded, is an operand, or was built.
C40_TruthKept ==
    pc = "expr" =>
        \A val \in Assignments :
            /\ hist.f = "Not" => (Truth(hist.r, val) <=> ~Truth(hist.a, val))
            /\ hist.f = "And" =>
                  (Truth(hist.r, val) <=> (Truth(hist.a, val) /\ Truth(hist.b, val)))
            /\ hist.f = "Or" =>
                  (Truth(hist.r, val) <=> (Truth(hist.a, val) \/ Truth(hist.b, val)))

\* a disjunction was folded to its non-literal operand
C40_Witness ==
    /\ pc = "expr" /\ hist.f = "Or"
    /\ hist.a = ExprBoolean(FALSE) /\ hist.b.t = "And"
    /\ hist.r = hist.b

=============================================================================
